------------------------- MODULE MessageQueueProofs -------------------------
(***************************************************************************)
(* What is proved of the message queue chat of week10 for any number of    *)
(* processes and users and any size of the queue: no text is lost or       *)
(* printed twice, and the acknowledgements match the texts printed.        *)
(***************************************************************************)
EXTENDS MessageQueue, WellFoundedInduction, FiniteSetTheorems, SequenceTheorems, TLAPS

-----------------------------------------------------------------------------
(* The inductive invariant.                                                *)

\* Of the processes in a set P, those that are in state v, and how many; the places of
\* t in q.
Those(f, P, v) == {p \in P : f[p] = v}
Num(f, P, v)   == Cardinality(Those(f, P, v))
Where(q, t)    == {k \in DOMAIN q : q[k] = t}

TextsOf(u) ==
    InQueue(u) + Total(printed, At(u)) + (Num(parent, WriteTo(u), "sending") + Num(child, At(u), "print"))
        \in (Total(typed, WriteTo(u)) - (Num(parent, WriteTo(u), "gone") + Num(child, At(u), "gone")))
            .. Total(typed, WriteTo(u))

AcksFor(u) ==
    InQueue(T_MSG + u) + Total(shown, At(u)) + (Num(child, WriteTo(u), "ack") + Num(child, At(u), "show"))
        \in (Total(printed, WriteTo(u)) - (Num(child, WriteTo(u), "gone") + Num(child, At(u), "gone")))
            .. Total(printed, WriteTo(u))

\* There is no child before the fork, and who has something to send has seen the queue.
Started(p) ==
    /\ parent[p] = "off" => child[p] = "off"
    /\ parent[p] \in {"input", "sending"} \/ child[p] \in {"print", "ack"} => exists

IInv ==
    /\ TypeOK
    /\ typed \in [Procs -> Nat]
    /\ \A p \in Procs : Started(p)
    /\ \A u \in Users : TextsOf(u)
    /\ \A u \in Users : AcksFor(u)

-----------------------------------------------------------------------------
(* Lemmas about the operators that count.                                  *)

\* A set of natural numbers has a least element: inclusion of the finite sets 0 .. n
\* is well founded.
LEMMA MinIn ==
    ASSUME NEW S \in SUBSET Nat, S # {}
    PROVE  Min(S) \in S
  <1> DEFINE T == {0 .. n : n \in S}
             R == StrictSubsetOrdering(Nat)
  <1>1. T \subseteq FiniteSubsetsOf(Nat)
    <2> SUFFICES ASSUME NEW n \in S PROVE 0 .. n \in FiniteSubsetsOf(Nat)
      OBVIOUS
    <2>1. IsFiniteSet(0 .. n) /\ 0 .. n \in SUBSET Nat
      BY FS_Interval
    <2> QED
      BY <2>1 DEF FiniteSubsetsOf
  <1>2. T # {} /\ IsWellFoundedOn(R, FiniteSubsetsOf(Nat))
    BY FS_StrictSubsetOrderingWellFounded
  <1>3. PICK a \in T : \A b \in T : <<b, a>> \notin R
    <2> HIDE DEF T, R
    <2> QED
      BY <1>1, <1>2, WFMin
  <1>4. PICK n \in S : a = 0 .. n
    BY <1>3
  <1>5. ASSUME NEW m \in S, m < n PROVE FALSE
    <2>1. n \in 0 .. n /\ n \notin 0 .. m
      BY <1>5
    <2>2. 0 .. m \in SUBSET Nat /\ 0 .. n \in SUBSET Nat /\ 0 .. m \subseteq 0 .. n /\ 0 .. m # 0 .. n
      BY <1>5, <2>1
    <2>3. <<0 .. m, 0 .. n>> \in R
      BY <2>2 DEF StrictSubsetOrdering
    <2> QED
      BY <1>3, <1>4, <2>3
  <1>6. \A m \in S : n <= m
    BY <1>5
  <1> QED
    BY <1>6 DEF Min

\* Whether p is one of the processes of P in state v, or one of them at all; whether
\* t is e.
Hit(f, P, v, p) == IF p \in P /\ f[p] = v THEN 1 ELSE 0
One(p, P)       == IF p \in P THEN 1 ELSE 0
Same(t, e)      == IF t = e THEN 1 ELSE 0

\* One element more, or one fewer, or the same set.
LEMMA CountWith ==
    ASSUME NEW S, IsFiniteSet(S), NEW x
    PROVE  /\ Cardinality(S) \in Nat
           /\ x \notin S => Cardinality(S \cup {x}) = Cardinality(S) + 1
           /\ x \in S => Cardinality(S \ {x}) = Cardinality(S) - 1
  BY FS_CardinalityType, FS_AddElement, FS_RemoveElement

LEMMA Moved ==
    ASSUME NEW P \in SUBSET Procs, NEW p \in Procs, NEW f, NEW g, NEW v,
           \A q \in Procs \ {p} : g[q] = f[q]
    PROVE  /\ Cardinality(Those(f, P, v)) \in Nat
           /\ Cardinality(Those(g, P, v)) =
                Cardinality(Those(f, P, v)) - Hit(f, P, v, p) + Hit(g, P, v, p)
  <1> DEFINE F == Those(f, P, v)
             G == Those(g, P, v)
  <1>1. /\ \A q : q \in F <=> q \in P /\ f[q] = v
        /\ \A q : q \in G <=> q \in P /\ IF q = p THEN g[p] = v ELSE f[q] = v
    BY DEF Those
  <1> HIDE DEF F, G
  <1>2. IsFiniteSet(F)
    BY <1>1, QueueAssumption, FS_Subset
  <1>3. Cardinality(F) \in Nat
    BY <1>2, FS_CardinalityType
  <1>4. Cardinality(G) = Cardinality(F) - Hit(f, P, v, p) + Hit(g, P, v, p)
    <2>1. CASE p \in P /\ f[p] = v /\ g[p] # v
      <3>1. G = F \ {p} /\ p \in F
        BY <1>1, <2>1
      <3>2. Cardinality(G) = Cardinality(F) - 1
        BY <1>2, <3>1, CountWith
      <3> QED
        BY <1>3, <2>1, <3>2 DEF Hit
    <2>2. CASE p \in P /\ f[p] # v /\ g[p] = v
      <3>1. G = F \cup {p} /\ p \notin F
        BY <1>1, <2>2
      <3>2. Cardinality(G) = Cardinality(F) + 1
        BY <1>2, <3>1, CountWith
      <3> QED
        BY <1>3, <2>2, <3>2 DEF Hit
    <2>3. CASE p \notin P \/ (f[p] = v <=> g[p] = v)
      <3>1. G = F
        BY <1>1, <2>3
      <3>2. Cardinality(G) = Cardinality(F) - 0 + 0 /\ Cardinality(G) = Cardinality(F) - 1 + 1
        BY <1>3, <3>1
      <3> QED
        BY <2>3, <3>2 DEF Hit
    <2> QED
      BY <2>1, <2>2, <2>3
  <1> QED
    BY <1>3, <1>4 DEF F, G

Units(f, P) == UNION {{p} \X (1 .. f[p]) : p \in P}

LEMMA UnitsFinite ==
    ASSUME NEW P \in SUBSET Procs, NEW f \in [Procs -> Nat]
    PROVE  /\ IsFiniteSet(Units(f, P))
           /\ Total(f, P) = Cardinality(Units(f, P)) /\ Total(f, P) \in Nat
           /\ \A x : x \in Units(f, P) <=> \E q \in P : \E n \in 1 .. f[q] : x = <<q, n>>
  <1> DEFINE T == {{p} \X (1 .. f[p]) : p \in P}
             h == [p \in P |-> {p} \X (1 .. f[p])]
  <1>1. IsFiniteSet(P)
    BY QueueAssumption, FS_Subset
  <1>2. h \in Surjection(P, T)
    BY DEF Surjection
  <1>3. IsFiniteSet(T)
    <2> HIDE DEF T, h
    <2> QED
      BY <1>1, <1>2, FS_Surjection
  <1>4. \A U \in T : IsFiniteSet(U)
    <2> SUFFICES ASSUME NEW p \in P PROVE IsFiniteSet({p} \X (1 .. f[p]))
      OBVIOUS
    <2>1. IsFiniteSet({p})
      BY FS_Singleton
    <2>2. f[p] \in Int
      OBVIOUS
    <2>3. IsFiniteSet(1 .. f[p])
      BY <2>2, FS_Interval
    <2> QED
      BY <2>1, <2>3, FS_Product
  <1>5. Units(f, P) = UNION T
    BY DEF Units
  <1>6. IsFiniteSet(Units(f, P))
    <2> HIDE DEF T
    <2> QED
      BY <1>3, <1>4, <1>5, FS_UNION
  <1>7. Total(f, P) = Cardinality(Units(f, P))
    BY DEF Total, Units
  <1>8. \A x : x \in Units(f, P) <=> \E q \in P : \E n \in 1 .. f[q] : x = <<q, n>>
    BY DEF Units
  <1> QED
    BY <1>6, <1>7, <1>8, FS_CardinalityType

\* One more for p.
LEMMA Raised ==
    ASSUME NEW P \in SUBSET Procs, NEW f \in [Procs -> Nat], NEW p \in Procs,
           NEW g, g = [f EXCEPT ![p] = @ + 1]
    PROVE  /\ g \in [Procs -> Nat] /\ Total(f, P) \in Nat /\ Total(g, P) \in Nat
           /\ Total(g, P) = Total(f, P) + One(p, P)
  <1>1. g \in [Procs -> Nat] /\ g[p] = f[p] + 1 /\ \A q \in Procs \ {p} : g[q] = f[q]
    OBVIOUS
  <1>2. /\ IsFiniteSet(Units(f, P)) /\ Total(f, P) = Cardinality(Units(f, P))
        /\ \A x : x \in Units(f, P) <=> \E q \in P : \E n \in 1 .. f[q] : x = <<q, n>>
        /\ Total(f, P) \in Nat
    BY UnitsFinite
  <1>3. /\ Total(g, P) = Cardinality(Units(g, P)) /\ Total(g, P) \in Nat
        /\ \A x : x \in Units(g, P) <=> \E q \in P : \E n \in 1 .. g[q] : x = <<q, n>>
    BY <1>1, UnitsFinite
  <1>4. CASE p \notin P
    <2>1. \A q \in P : f[q] = g[q]
      BY <1>1, <1>4
    <2>2. ASSUME NEW x PROVE x \in Units(f, P) <=> x \in Units(g, P)
      <3>1. (\E q \in P : \E n \in 1 .. f[q] : x = <<q, n>>) <=> \E q \in P : \E n \in 1 .. g[q] : x = <<q, n>>
        BY <2>1
      <3> QED
        BY <1>2, <1>3, <3>1
    <2>3. Units(f, P) = Units(g, P)
      BY <2>2
    <2> QED
      BY <1>1, <1>2, <1>3, <1>4, <2>3 DEF One
  <1>5. CASE p \in P
    <2>1. /\ \A n : n \in 1 .. g[p] <=> n \in 1 .. f[p] \/ n = f[p] + 1
          /\ \A q \in P \ {p} : g[q] = f[q]
      BY <1>1
    <2>2. ASSUME NEW x PROVE x \in Units(g, P) <=> x \in Units(f, P) \/ x = <<p, f[p] + 1>>
      <3>1. x \in Units(g, P) <=> \E q \in P : \E n \in 1 .. g[q] : x = <<q, n>>
        BY <1>3
      <3>2. x \in Units(f, P) <=> \E q \in P : \E n \in 1 .. f[q] : x = <<q, n>>
        BY <1>2
      <3>3. (\E n \in 1 .. g[p] : x = <<p, n>>) <=> (\E n \in 1 .. f[p] : x = <<p, n>>) \/ x = <<p, f[p] + 1>>
        BY <2>1
      <3>4. \A q \in P \ {p} : (\E n \in 1 .. g[q] : x = <<q, n>>) <=> \E n \in 1 .. f[q] : x = <<q, n>>
        BY <2>1
      <3> QED
        BY <1>5, <3>1, <3>2, <3>3, <3>4
    <2>3. <<p, f[p] + 1>> \notin Units(f, P)
      <3>1. \A n \in 1 .. f[p] : n # f[p] + 1
        OBVIOUS
      <3> QED
        BY <1>2, <3>1
    <2>4. Units(g, P) = Units(f, P) \cup {<<p, f[p] + 1>>}
      BY <2>2
    <2>5. Cardinality(Units(g, P)) = Cardinality(Units(f, P)) + 1
      BY <1>2, <2>3, <2>4, CountWith
    <2> QED
      BY <1>1, <1>2, <1>3, <1>5, <2>5 DEF One
  <1> QED
    BY <1>4, <1>5

\* Putting a message into a queue, and taking one out.
LEMMA AppendedOne ==
    ASSUME NEW S, NEW q \in Seq(S), NEW r \in Seq(S), NEW e, NEW t,
           Len(r) = Len(q) + 1, \A k \in 1 .. Len(q) : r[k] = q[k], r[Len(q) + 1] = e
    PROVE  /\ Cardinality(Where(q, t)) \in Nat
           /\ Cardinality(Where(r, t)) =
                Cardinality(Where(q, t)) + Same(t, e)
  <1> DEFINE Q == Where(q, t)
             R == Where(r, t)
  <1> USE DEF Where
  <1>1. Len(q) \in Nat /\ DOMAIN q = 1 .. Len(q) /\ DOMAIN r = 1 .. Len(q) + 1
    BY LenProperties
  <1>2. IsFiniteSet(Q) /\ Len(q) + 1 \notin Q
    <2>1. IsFiniteSet(1 .. Len(q)) /\ Q \in SUBSET (1 .. Len(q))
      BY <1>1, FS_Interval
    <2> QED
      BY <1>1, <2>1, FS_Subset
  <1>3. R = IF e = t THEN Q \cup {Len(q) + 1} ELSE Q
    <2>1. \A k : k \in 1 .. Len(q) + 1 <=> k \in 1 .. Len(q) \/ k = Len(q) + 1
      BY <1>1
    <2> QED
      BY <1>1, <2>1
  <1>4. Cardinality(Q) \in Nat /\ Cardinality(R) = Cardinality(Q) + Same(t, e)
    <2> HIDE DEF Q, R
    <2>1. Cardinality(Q) \in Nat /\ Cardinality(Q \cup {Len(q) + 1}) = Cardinality(Q) + 1
      BY <1>2, CountWith
    <2> QED
      BY <1>3, <2>1 DEF Same
  <1> QED
    BY <1>4

LEMMA RemovedOne ==
    ASSUME NEW S, NEW q \in Seq(S), NEW m \in DOMAIN q, NEW r, r = RemoveAt(q, m), NEW t
    PROVE  /\ r \in Seq(S) /\ Len(r) = Len(q) - 1
           /\ \A k \in DOMAIN r : r[k] \in {q[j] : j \in DOMAIN q}
           /\ Cardinality(Where(q, t)) \in Nat
           /\ Cardinality(Where(r, t)) =
                Cardinality(Where(q, t)) - Same(t, q[m])
  <1> DEFINE Q == Where(q, t)
             R == Where(r, t)
             before == SubSeq(q, 1, m - 1)
             after == SubSeq(q, m + 1, Len(q))
             Old(k) == IF k < m THEN k ELSE k + 1
             h == [k \in R |-> Old(k)]
  <1> USE DEF Where
  <1>1. Len(q) \in Nat /\ DOMAIN q = 1 .. Len(q) /\ m \in 1 .. Len(q)
    BY LenProperties
  <1>2. before \in Seq(S) /\ Len(before) = m - 1 /\ \A k \in 1 .. m - 1 : before[k] = q[k]
    <2>1. \A k \in 1 .. m - 1 : q[k] \in S
      BY <1>1
    <2>2. m - 1 \in Int /\ 1 \in Int
      BY <1>1
    <2>3. /\ before \in Seq(S) /\ Len(before) = IF 1 <= m - 1 THEN m - 1 - 1 + 1 ELSE 0
          /\ \A k \in 1 .. m - 1 - 1 + 1 : before[k] = q[1 + k - 1]
      BY <2>1, <2>2, SubSeqProperties
    <2> HIDE DEF before
    <2> QED
      BY <1>1, <2>3
  <1>3. after \in Seq(S) /\ Len(after) = Len(q) - m /\ \A k \in 1 .. Len(q) - m : after[k] = q[m + k]
    <2>1. \A k \in m + 1 .. Len(q) : q[k] \in S
      BY <1>1
    <2>2. m + 1 \in Int /\ Len(q) \in Int
      BY <1>1
    <2>3. /\ after \in Seq(S) /\ Len(after) = IF m + 1 <= Len(q) THEN Len(q) - (m + 1) + 1 ELSE 0
          /\ \A k \in 1 .. Len(q) - (m + 1) + 1 : after[k] = q[m + 1 + k - 1]
      BY <2>1, <2>2, SubSeqProperties
    <2> HIDE DEF after
    <2>4. ASSUME NEW k \in 1 .. Len(q) - m PROVE after[k] = q[m + k]
      <3>1. k \in 1 .. Len(q) - (m + 1) + 1 /\ m + 1 + k - 1 = m + k
        BY <1>1
      <3>2. after[k] = q[m + 1 + k - 1]
        BY <2>3, <3>1
      <3> QED
        BY <3>1, <3>2
    <2> QED
      BY <1>1, <2>3, <2>4
  <1>4. r = before \o after
    BY DEF RemoveAt
  <1> HIDE DEF before, after
  <1>5. /\ r \in Seq(S) /\ Len(r) = Len(q) - 1 /\ DOMAIN r = 1 .. Len(q) - 1
        /\ \A k \in 1 .. Len(q) - 1 : r[k] = q[Old(k)] /\ Old(k) \in 1 .. Len(q)
    <2>1. /\ r \in Seq(S) /\ Len(r) = (m - 1) + (Len(q) - m)
          /\ \A k \in 1 .. (m - 1) + (Len(q) - m) : r[k] = IF k <= m - 1 THEN before[k] ELSE after[k - (m - 1)]
      <3>1. /\ r \in Seq(S) /\ Len(r) = Len(before) + Len(after)
            /\ \A k \in 1 .. Len(before) + Len(after) :
                    r[k] = IF k <= Len(before) THEN before[k] ELSE after[k - Len(before)]
        BY <1>2, <1>3, <1>4, ConcatProperties
      <3> QED
        BY <1>2, <1>3, <3>1
    <2>2. (m - 1) + (Len(q) - m) = Len(q) - 1
      BY <1>1
    <2>3. DOMAIN r = 1 .. Len(q) - 1
      BY <2>1, <2>2
    <2>4. ASSUME NEW k \in 1 .. Len(q) - 1 PROVE r[k] = q[Old(k)] /\ Old(k) \in 1 .. Len(q)
      <3>1. CASE k < m
        BY <1>1, <1>2, <2>1, <2>2, <3>1
      <3>2. CASE ~(k < m)
        <4>1. k - (m - 1) \in 1 .. Len(q) - m /\ m + (k - (m - 1)) = k + 1
          BY <1>1, <3>2
        <4>2. r[k] = after[k - (m - 1)]
          BY <1>1, <2>1, <2>2, <3>2
        <4>3. after[k - (m - 1)] = q[m + (k - (m - 1))]
          BY <1>3, <4>1
        <4>4. Old(k) = k + 1 /\ k + 1 \in 1 .. Len(q)
          BY <1>1, <3>2
        <4> HIDE DEF Old
        <4> QED
          BY <4>1, <4>2, <4>3, <4>4
      <3> QED
        BY <3>1, <3>2
    <2> QED
      BY <2>1, <2>2, <2>3, <2>4
  <1>6. h \in Bijection(R, Q \ {m})
    <2>1. ASSUME NEW k \in R PROVE Old(k) \in Q \ {m}
      BY <1>1, <1>5
    <2>2. ASSUME NEW k \in R, NEW l \in R, Old(k) = Old(l) PROVE k = l
      BY <1>1, <1>5, <2>2
    <2>3. ASSUME NEW j \in Q \ {m} PROVE \E k \in R : Old(k) = j
      <3>1. CASE j < m
        <4>1. j \in 1 .. Len(q) - 1 /\ Old(j) = j
          BY <1>1, <3>1
        <4> QED
          BY <1>5, <4>1
      <3>2. CASE ~(j < m)
        <4>1. j - 1 \in 1 .. Len(q) - 1 /\ Old(j - 1) = j
          BY <1>1, <3>2
        <4> QED
          BY <1>5, <4>1
      <3> QED
        BY <3>1, <3>2
    <2> HIDE DEF Old, R, Q
    <2> QED
      BY <2>1, <2>2, <2>3 DEF Bijection, Injection, Surjection, IsInjective
  <1>7. IsFiniteSet(Q) /\ IsFiniteSet(R) /\ (m \in Q <=> q[m] = t)
    <2>1. IsFiniteSet(1 .. Len(q)) /\ Q \in SUBSET (1 .. Len(q)) /\ R \in SUBSET (1 .. Len(q))
      <3>1. IsFiniteSet(1 .. Len(q)) /\ 1 .. Len(q) - 1 \subseteq 1 .. Len(q)
        BY <1>1, FS_Interval
      <3> QED
        BY <1>1, <1>5, <3>1
    <2> QED
      BY <1>1, <2>1, FS_Subset
  <1>8. Cardinality(Q) \in Nat /\ Cardinality(R) = Cardinality(Q) - Same(t, q[m])
    <2> HIDE DEF Q, R, h
    <2>1. IsFiniteSet(Q \ {m}) /\ Cardinality(Q) \in Nat
      BY <1>7, FS_RemoveElement, CountWith
    <2>2. ExistsBijection(R, Q \ {m})
      BY <1>6 DEF ExistsBijection
    <2>3. Cardinality(R) = Cardinality(Q \ {m})
      BY <1>7, <2>2, FS_Bijection
    <2>4. CASE q[m] = t
      BY <1>7, <2>1, <2>3, <2>4, CountWith DEF Same
    <2>5. CASE q[m] # t
      <3>1. m \notin Q /\ Same(t, q[m]) = 0
        BY <1>7, <2>5 DEF Same
      <3>2. Cardinality(Q \ {m}) = Cardinality(Q)
        BY <1>7, <3>1, FS_RemoveElement
      <3> QED
        BY <2>1, <2>3, <3>1, <3>2
    <2> QED
      BY <2>4, <2>5
  <1>9. \A k \in DOMAIN r : r[k] \in {q[j] : j \in DOMAIN q}
    BY <1>1, <1>5
  <1> QED
    BY <1>5, <1>8, <1>9

-----------------------------------------------------------------------------
(* What a step does to the counts.                                         *)

Types == Users \cup {T_MSG + u : u \in Users}

LEMMA TypesApart ==
    /\ \A p \in Procs : user_id[p] \in Users /\ receiver_id[p] \in Users
    /\ Users \subseteq Nat /\ Types \subseteq Nat /\ T_MSG \in Nat /\ Capacity \in Nat
    /\ \A u, v \in Users : u # T_MSG + v /\ (T_MSG + u = T_MSG + v <=> u = v)
  <1>1. /\ \A p \in Procs : user_id[p] \in Nat /\ receiver_id[p] \in Nat
        /\ T_MSG \in Nat /\ Capacity \in Nat /\ \A u, v \in Users : u # T_MSG + v
    BY QueueAssumption
  <1>2. Users \subseteq Nat
    BY <1>1 DEF Users
  <1>3. \A p \in Procs : user_id[p] \in Users /\ receiver_id[p] \in Users
    BY DEF Users
  <1>4. \A u \in Users : T_MSG + u \in Nat
    BY <1>1, <1>2
  <1>5. Types \subseteq Nat
    BY <1>2, <1>4 DEF Types
  <1>6. \A u, v \in Users : T_MSG + u = T_MSG + v <=> u = v
    BY <1>1, <1>2
  <1> QED
    BY <1>1, <1>2, <1>3, <1>5, <1>6

LEMMA Sends ==
    ASSUME queue \in Seq(Types), NEW e \in Types, Send(e), NEW t
    PROVE  /\ queue' \in Seq(Types) /\ Len(queue') <= Capacity
           /\ \A k \in DOMAIN queue' : queue'[k] = e \/ \E j \in DOMAIN queue : queue'[k] = queue[j]
           /\ InQueue(t) \in Nat /\ InQueue(t)' = InQueue(t) + Same(t, e)
  <1>1. queue' = Append(queue, e) /\ Len(queue) < Capacity
    BY DEF Send
  <1>2. /\ queue' \in Seq(Types) /\ Len(queue') = Len(queue) + 1 /\ Len(queue) \in Nat
        /\ \A k \in 1 .. Len(queue) : queue'[k] = queue[k]
        /\ queue'[Len(queue) + 1] = e
        /\ DOMAIN queue = 1 .. Len(queue) /\ DOMAIN queue' = 1 .. Len(queue')
    BY <1>1, LenProperties, AppendProperties
  <1>3. Len(queue') <= Capacity
    BY <1>1, <1>2, TypesApart
  <1>4. \A k \in DOMAIN queue' : queue'[k] = e \/ \E j \in DOMAIN queue : queue'[k] = queue[j]
    <2>1. \A k \in DOMAIN queue' : k \in 1 .. Len(queue) \/ k = Len(queue) + 1
      BY <1>2
    <2> QED
      BY <1>2, <2>1
  <1>5. /\ Cardinality(Where(queue, t)) \in Nat
        /\ Cardinality(Where(queue', t)) =
                Cardinality(Where(queue, t)) + Same(t, e)
    BY <1>2, AppendedOne
  <1> QED
    BY <1>2, <1>3, <1>4, <1>5 DEF InQueue, Positions, Where

LEMMA Receives ==
    ASSUME queue \in Seq(Types), NEW e \in Types, Receive(e), NEW t
    PROVE  /\ queue' \in Seq(Types) /\ Len(queue') = Len(queue) - 1
           /\ \A k \in DOMAIN queue' : \E j \in DOMAIN queue : queue'[k] = queue[j]
           /\ \E j \in DOMAIN queue : queue[j] = e
           /\ exists /\ Len(queue) \in Nat
           /\ InQueue(t) \in Nat /\ InQueue(t)' = InQueue(t) - Same(t, e)
  <1>1. exists /\ Positions(e) # {} /\ queue' = RemoveAt(queue, Min(Positions(e)))
    BY DEF Receive, Queued
  <1>2. Positions(e) \in SUBSET Nat /\ Len(queue) \in Nat /\ DOMAIN queue = 1 .. Len(queue)
    BY LenProperties DEF Positions
  <1>3. Min(Positions(e)) \in Positions(e)
    BY <1>1, <1>2, MinIn
  <1>4. PICK m \in DOMAIN queue : m = Min(Positions(e)) /\ queue[m] = e
    BY <1>3 DEF Positions
  <1>5. /\ queue' \in Seq(Types) /\ Len(queue') = Len(queue) - 1
        /\ \A k \in DOMAIN queue' : queue'[k] \in {queue[j] : j \in DOMAIN queue}
        /\ Cardinality(Where(queue, t)) \in Nat
        /\ Cardinality(Where(queue', t)) =
                Cardinality(Where(queue, t)) - Same(t, queue[m])
    <2>1. PICK r : r = RemoveAt(queue, m) /\ queue' = r
      BY <1>1, <1>4
    <2>2. /\ r \in Seq(Types) /\ Len(r) = Len(queue) - 1
          /\ \A k \in DOMAIN r : r[k] \in {queue[j] : j \in DOMAIN queue}
          /\ Cardinality(Where(queue, t)) \in Nat
          /\ Cardinality(Where(r, t)) = Cardinality(Where(queue, t)) - Same(t, queue[m])
      BY <2>1, RemovedOne, SMTT(60)
    <2> QED
      BY <2>1, <2>2
  <1> QED
    BY <1>1, <1>2, <1>4, <1>5 DEF InQueue, Positions, Where

LEMMA QueueSame ==
    ASSUME queue \in Seq(Types), UNCHANGED queue, NEW t
    PROVE  InQueue(t) \in Nat /\ InQueue(t)' = InQueue(t)
  <1>1. Len(queue) \in Nat /\ DOMAIN queue = 1 .. Len(queue)
    BY LenProperties
  <1>2. Positions(t) \in SUBSET (1 .. Len(queue)) /\ IsFiniteSet(1 .. Len(queue))
    BY <1>1, FS_Interval DEF Positions
  <1>3. Cardinality(Positions(t)) \in Nat
    BY <1>2, FS_Subset, FS_CardinalityType
  <1> QED
    BY <1>3 DEF InQueue, Positions, Where

LEMMA Groups == \A u : At(u) \in SUBSET Procs /\ WriteTo(u) \in SUBSET Procs
  BY DEF At, WriteTo

LEMMA OneOrNone == \A p, P : One(p, P) \in {0, 1}
  BY DEF One

\* The process or child of p goes from a to b.
LEMMA Turns ==
    ASSUME NEW P \in SUBSET Procs, NEW p \in Procs, NEW f, NEW g, NEW a, NEW b,
           f[p] = a, g[p] = b, a # b, \A q \in Procs \ {p} : g[q] = f[q]
    PROVE  /\ Num(f, P, a) \in Nat /\ Num(f, P, b) \in Nat
           /\ Num(g, P, a) = Num(f, P, a) - One(p, P)
           /\ Num(g, P, b) = Num(f, P, b) + One(p, P)
           /\ \A v : v # a /\ v # b => Num(g, P, v) = Num(f, P, v)
  <1>1. ASSUME NEW v
        PROVE  /\ Num(f, P, v) \in Nat
               /\ Num(g, P, v) = Num(f, P, v) - Hit(f, P, v, p) + Hit(g, P, v, p)
    BY Moved DEF Num
  <1>2. Hit(f, P, a, p) = One(p, P) /\ Hit(g, P, a, p) = 0
    BY DEF Hit, One
  <1>3. Hit(f, P, b, p) = 0 /\ Hit(g, P, b, p) = One(p, P)
    BY DEF Hit, One
  <1>4. \A v : v # a /\ v # b => Hit(f, P, v, p) = 0 /\ Hit(g, P, v, p) = 0
    BY DEF Hit
  <1>5. Num(g, P, a) = Num(f, P, a) - One(p, P)
    BY <1>1, <1>2, OneOrNone
  <1>6. Num(g, P, b) = Num(f, P, b) + One(p, P)
    BY <1>1, <1>3, OneOrNone
  <1>7. \A v : v # a /\ v # b => Num(g, P, v) = Num(f, P, v)
    BY <1>1, <1>4
  <1> QED
    BY <1>1, <1>5, <1>6, <1>7

\* The process or child of p goes on without taking anything into its hands, or ends.
Drops(f, g, p, v) ==
    /\ \A q \in Procs \ {p} : g[q] = f[q]
    /\ f[p] = "gone" => g[p] = "gone"
    /\ IF f[p] = v THEN g[p] \in {v, "gone"} ELSE g[p] # v

\* Then what is not in hands any more is with those that have ended.
LEMMA Dropped ==
    ASSUME NEW P \in SUBSET Procs, NEW p \in Procs, NEW f, NEW g, NEW v, v # "gone", Drops(f, g, p, v)
    PROVE  /\ Num(f, P, v) \in Nat /\ Num(f, P, "gone") \in Nat
           /\ Num(g, P, v) \in Nat /\ Num(g, P, "gone") \in Nat
           /\ Num(g, P, v) <= Num(f, P, v)
           /\ Num(f, P, v) + Num(f, P, "gone") <= Num(g, P, v) + Num(g, P, "gone")
  <1>1. \A w : /\ Num(f, P, w) \in Nat
               /\ Num(g, P, w) = Num(f, P, w) - Hit(f, P, w, p) + Hit(g, P, w, p)
    BY Moved DEF Num, Drops
  <1>2. \A w : Num(g, P, w) \in Nat
    <2>1. \A w : Those(g, P, w) \in SUBSET Procs
      BY DEF Those
    <2> QED
      BY <2>1, QueueAssumption, FS_Subset, FS_CardinalityType DEF Num
  <1>3. /\ Hit(f, P, v, p) \in {0, 1} /\ Hit(g, P, v, p) \in {0, 1}
        /\ Hit(f, P, "gone", p) \in {0, 1} /\ Hit(g, P, "gone", p) \in {0, 1}
        /\ Hit(g, P, v, p) <= Hit(f, P, v, p)
        /\ Hit(f, P, v, p) + Hit(f, P, "gone", p) <= Hit(g, P, v, p) + Hit(g, P, "gone", p)
    BY DEF Hit, Drops
  <1> QED
    BY <1>1, <1>2, <1>3

\* All counts are natural numbers.
LEMMA Naturals ==
    ASSUME IInv, NEW u
    PROVE  /\ InQueue(u) \in Nat
           /\ Total(printed, At(u)) \in Nat /\ Total(printed, WriteTo(u)) \in Nat
           /\ Total(shown, At(u)) \in Nat /\ Total(typed, WriteTo(u)) \in Nat
           /\ \A f, v : Num(f, At(u), v) \in Nat /\ Num(f, WriteTo(u), v) \in Nat
  <1>1. InQueue(u) \in Nat
    <2>1. queue \in Seq(Types) /\ Len(queue) \in Nat /\ DOMAIN queue = 1 .. Len(queue)
      BY LenProperties DEF IInv, TypeOK, Types
    <2>2. Positions(u) \in SUBSET (1 .. Len(queue)) /\ IsFiniteSet(1 .. Len(queue))
      BY <2>1, FS_Interval DEF Positions
    <2> QED
      BY <2>2, FS_Subset, FS_CardinalityType DEF InQueue
  <1>2. /\ Total(printed, At(u)) \in Nat /\ Total(printed, WriteTo(u)) \in Nat
        /\ Total(shown, At(u)) \in Nat /\ Total(typed, WriteTo(u)) \in Nat
    BY Groups, UnitsFinite DEF IInv, TypeOK
  <1>3. \A S \in SUBSET Procs : Cardinality(S) \in Nat
    BY QueueAssumption, FS_Subset, FS_CardinalityType
  <1>4. \A f, v : Those(f, At(u), v) \in SUBSET Procs /\ Those(f, WriteTo(u), v) \in SUBSET Procs
    BY Groups DEF Those
  <1> QED
    BY <1>1, <1>2, <1>3, <1>4 DEF Num

-----------------------------------------------------------------------------
(* The invariant.                                                          *)

LEMMA TextsNext ==
    ASSUME NEW u
    PROVE  TextsOf(u)' <=>
            InQueue(u)' + Total(printed', At(u))
                    + (Num(parent', WriteTo(u), "sending") + Num(child', At(u), "print"))
                \in (Total(typed', WriteTo(u)) - (Num(parent', WriteTo(u), "gone") + Num(child', At(u), "gone")))
                    .. Total(typed', WriteTo(u))
  BY DEF TextsOf, At, WriteTo

LEMMA AcksNext ==
    ASSUME NEW u
    PROVE  AcksFor(u)' <=>
            InQueue(T_MSG + u)' + Total(shown', At(u))
                    + (Num(child', WriteTo(u), "ack") + Num(child', At(u), "show"))
                \in (Total(printed', WriteTo(u)) - (Num(child', WriteTo(u), "gone") + Num(child', At(u), "gone")))
                    .. Total(printed', WriteTo(u))
  BY DEF AcksFor, At, WriteTo

LEMMA QueueTyped == IInv => queue \in Seq(Types)
  BY DEF IInv, TypeOK, Types

\* A text, an acknowledgement: how the counts of a step have to go together.
LEMMA TextsKeep ==
    ASSUME IInv, NEW u \in Users,
           NEW q \in Int, NEW p \in Int, NEW s \in Int, NEW h \in Int, NEW t \in Int,
           q + p + s + h = t,
           InQueue(u)' = InQueue(u) + q,
           Total(printed', At(u)) = Total(printed, At(u)) + p,
           Num(parent', WriteTo(u), "sending") = Num(parent, WriteTo(u), "sending") + s,
           Num(child', At(u), "print") = Num(child, At(u), "print") + h,
           Total(typed', WriteTo(u)) = Total(typed, WriteTo(u)) + t,
           Num(parent', WriteTo(u), "gone") = Num(parent, WriteTo(u), "gone"),
           Num(child', At(u), "gone") = Num(child, At(u), "gone")
    PROVE  TextsOf(u)'
  <1>1. TextsOf(u)
    BY DEF IInv
  <1> QED
    BY <1>1, Naturals, TextsNext DEF TextsOf

LEMMA AcksKeep ==
    ASSUME IInv, NEW u \in Users,
           NEW q \in Int, NEW s \in Int, NEW h \in Int, NEW w \in Int, NEW t \in Int,
           q + s + h + w = t,
           InQueue(T_MSG + u)' = InQueue(T_MSG + u) + q,
           Total(shown', At(u)) = Total(shown, At(u)) + s,
           Num(child', WriteTo(u), "ack") = Num(child, WriteTo(u), "ack") + h,
           Num(child', At(u), "show") = Num(child, At(u), "show") + w,
           Total(printed', WriteTo(u)) = Total(printed, WriteTo(u)) + t,
           Num(child', WriteTo(u), "gone") = Num(child, WriteTo(u), "gone"),
           Num(child', At(u), "gone") = Num(child, At(u), "gone")
    PROVE  AcksFor(u)'
  <1>1. AcksFor(u)
    BY DEF IInv
  <1> QED
    BY <1>1, Naturals, AcksNext DEF AcksFor

LEMMA Initially == Init => IInv
  <1> SUFFICES ASSUME Init PROVE IInv
    OBVIOUS
  <1>1. TypeOK /\ typed \in [Procs -> Nat] /\ queue = <<>>
    <2>1. queue \in Seq(Users \cup {T_MSG + u : u \in Users}) /\ Len(queue) = 0
      BY EmptySeq DEF Init
    <2>2. \A p \in Procs : typed[p] \in 0 .. Lines[p]
      BY QueueAssumption DEF Init
    <2>3. Len(queue) <= Capacity
      BY <2>1, TypesApart
    <2> QED
      BY <2>1, <2>2, <2>3 DEF Init, TypeOK
  <1>2. \A t : InQueue(t) = 0
    <2>1. \A t : Positions(t) = {}
      BY <1>1 DEF Positions
    <2> QED
      BY <2>1, FS_EmptySet DEF InQueue
  <1>3. ASSUME NEW P \in SUBSET Procs, NEW f, f = [p \in Procs |-> 0] PROVE Total(f, P) = 0
    <2>1. f \in [Procs -> Nat] /\ \A p \in P : f[p] = 0
      BY <1>3
    <2>2. \A x : x \notin Units(f, P)
      BY <2>1, UnitsFinite
    <2>3. Units(f, P) = {}
      BY <2>2
    <2> QED
      BY <2>1, <2>3, UnitsFinite, FS_EmptySet
  <1>4. \A u : /\ Total(printed, At(u)) = 0 /\ Total(printed, WriteTo(u)) = 0
               /\ Total(shown, At(u)) = 0 /\ Total(typed, WriteTo(u)) = 0
    BY <1>3, Groups DEF Init
  <1>5. ASSUME NEW P \in SUBSET Procs, NEW v, v # "off"
        PROVE  Num(parent, P, v) = 0 /\ Num(child, P, v) = 0
    <2>1. Those(parent, P, v) = {} /\ Those(child, P, v) = {}
      BY <1>5 DEF Init, Those
    <2> QED
      BY <2>1, FS_EmptySet DEF Num
  <1>6. \A u : TextsOf(u)
    BY <1>2, <1>4, <1>5, Groups DEF TextsOf
  <1>7. \A u : AcksFor(u)
    BY <1>2, <1>4, <1>5, Groups DEF AcksFor
  <1>8. \A p \in Procs : parent[p] = "off" /\ child[p] = "off"
    BY DEF Init
  <1> QED
    BY <1>1, <1>6, <1>7, <1>8 DEF IInv, Started

\* A step of the parent or the child of p that neither sends nor receives: a process
\* that ends loses what it has in its hands, nothing else changes in the counts.
Quiet(p) ==
    /\ UNCHANGED <<queue, typed, printed, shown>>
    /\ Drops(parent, parent', p, "sending")
    /\ \A v \in {"print", "ack", "show"} : Drops(child, child', p, v)

LEMMA QuietStep ==
    ASSUME IInv, NEW p \in Procs, Quiet(p)
    PROVE  \A u \in Users : TextsOf(u)' /\ AcksFor(u)'
  <1> SUFFICES ASSUME NEW u \in Users PROVE TextsOf(u)' /\ AcksFor(u)'
    OBVIOUS
  <1>1. /\ InQueue(u)' = InQueue(u) /\ InQueue(T_MSG + u)' = InQueue(T_MSG + u)
        /\ UNCHANGED <<typed, printed, shown>>
    BY QueueTyped, QueueSame DEF Quiet
  <1>2. /\ Drops(parent, parent', p, "sending") /\ Drops(child, child', p, "print")
        /\ Drops(child, child', p, "ack") /\ Drops(child, child', p, "show")
    BY DEF Quiet
  <1>3. At(u) \in SUBSET Procs /\ WriteTo(u) \in SUBSET Procs
    BY Groups
  <1>4. TextsOf(u)'
    <2> DEFINE a0 == Num(parent, WriteTo(u), "sending")
               a1 == Num(parent', WriteTo(u), "sending")
               b0 == Num(parent, WriteTo(u), "gone")
               b1 == Num(parent', WriteTo(u), "gone")
               c0 == Num(child, At(u), "print")
               c1 == Num(child', At(u), "print")
               d0 == Num(child, At(u), "gone")
               d1 == Num(child', At(u), "gone")
               x  == InQueue(u) + Total(printed, At(u))
               t  == Total(typed, WriteTo(u))
    <2>1. a0 \in Nat /\ b0 \in Nat /\ a1 \in Nat /\ b1 \in Nat /\ a1 <= a0 /\ a0 + b0 <= a1 + b1
      BY <1>2, <1>3, Dropped
    <2>2. c0 \in Nat /\ d0 \in Nat /\ c1 \in Nat /\ d1 \in Nat /\ c1 <= c0 /\ c0 + d0 <= c1 + d1
      BY <1>2, <1>3, Dropped
    <2>3. x \in Nat /\ t \in Nat /\ x + (a0 + c0) \in (t - (b0 + d0)) .. t
      <3>1. TextsOf(u)
        BY DEF IInv
      <3> QED
        BY <3>1, Naturals DEF TextsOf
    <2>4. TextsOf(u)' <=> x + (a1 + c1) \in (t - (b1 + d1)) .. t
      BY <1>1, TextsNext
    <2> HIDE DEF a0, a1, b0, b1, c0, c1, d0, d1, x, t
    <2> QED
      BY <2>1, <2>2, <2>3, <2>4
  <1>5. AcksFor(u)'
    <2> DEFINE a0 == Num(child, WriteTo(u), "ack")
               a1 == Num(child', WriteTo(u), "ack")
               b0 == Num(child, WriteTo(u), "gone")
               b1 == Num(child', WriteTo(u), "gone")
               c0 == Num(child, At(u), "show")
               c1 == Num(child', At(u), "show")
               d0 == Num(child, At(u), "gone")
               d1 == Num(child', At(u), "gone")
               x  == InQueue(T_MSG + u) + Total(shown, At(u))
               t  == Total(printed, WriteTo(u))
    <2>1. a0 \in Nat /\ b0 \in Nat /\ a1 \in Nat /\ b1 \in Nat /\ a1 <= a0 /\ a0 + b0 <= a1 + b1
      BY <1>2, <1>3, Dropped
    <2>2. c0 \in Nat /\ d0 \in Nat /\ c1 \in Nat /\ d1 \in Nat /\ c1 <= c0 /\ c0 + d0 <= c1 + d1
      BY <1>2, <1>3, Dropped
    <2>3. x \in Nat /\ t \in Nat /\ x + (a0 + c0) \in (t - (b0 + d0)) .. t
      <3>1. AcksFor(u)
        BY DEF IInv
      <3>2. InQueue(T_MSG + u) \in Nat /\ Total(shown, At(u)) \in Nat /\ t \in Nat
        BY Naturals
      <3> QED
        BY <3>1, <3>2 DEF AcksFor
    <2>4. AcksFor(u)' <=> x + (a1 + c1) \in (t - (b1 + d1)) .. t
      BY <1>1, AcksNext
    <2> HIDE DEF a0, a1, b0, b1, c0, c1, d0, d1, x, t
    <2> QED
      BY <2>1, <2>2, <2>3, <2>4
  <1> QED
    BY <1>4, <1>5

LEMMA QuietActions ==
    ASSUME IInv, NEW p \in Procs,
           Fork(p) \/ Open(p) \/ Quit(p) \/ EndOfInput(p) \/ Interrupt(p) \/ NoText(p) \/ NoAck(p)
    PROVE  IInv'
  <1> USE DEF IInv, TypeOK
  <1>1. /\ UNCHANGED <<queue, typed, printed, shown>>
        /\ parent' \in [Procs -> {"off", "open", "input", "sending", "gone"}]
        /\ child' \in [Procs -> {"off", "texts", "print", "ack", "acks", "show", "gone"}]
        /\ exists' \in BOOLEAN /\ (exists => exists')
    BY DEF Fork, Open, Quit, EndOfInput, Interrupt, NoText, NoAck
  <1>2. \A q \in Procs \ {p} : parent'[q] = parent[q] /\ child'[q] = child[q]
    BY DEF Fork, Open, Quit, EndOfInput, Interrupt, NoText, NoAck
  <1>3. /\ parent[p] = "gone" => parent'[p] = "gone"
        /\ child[p] = "gone" => child'[p] = "gone"
        /\ IF parent[p] = "sending" THEN parent'[p] \in {"sending", "gone"} ELSE parent'[p] # "sending"
        /\ \A v \in {"print", "ack", "show"} : IF child[p] = v THEN child'[p] \in {v, "gone"} ELSE child'[p] # v
        /\ Started(p)'
    BY DEF Fork, Open, Quit, EndOfInput, Interrupt, NoText, NoAck, Started
  <1>4. Quiet(p)
    BY <1>1, <1>2, <1>3 DEF Quiet, Drops
  <1>5. \A q \in Procs : Started(q)'
    BY <1>1, <1>2, <1>3 DEF Started
  <1>6. TypeOK' /\ typed' \in [Procs -> Nat]
    BY <1>1
  <1>7. \A u \in Users : TextsOf(u)' /\ AcksFor(u)'
    BY <1>4, QuietStep
  <1> QED
    BY <1>5, <1>6, <1>7

\* The counts that a step of the parent of p to another state leaves alone.
LEMMA ParentTurns ==
    ASSUME IInv, NEW p \in Procs, NEW a, NEW b, parent[p] = a, parent'[p] = b, a # b,
           a # "gone", b # "gone",
           \A q \in Procs \ {p} : parent'[q] = parent[q], UNCHANGED <<child, printed, shown>>, NEW u
    PROVE  /\ Num(parent', WriteTo(u), "gone") = Num(parent, WriteTo(u), "gone")
           /\ Num(parent', WriteTo(u), a) = Num(parent, WriteTo(u), a) - One(p, WriteTo(u))
           /\ Num(parent', WriteTo(u), b) = Num(parent, WriteTo(u), b) + One(p, WriteTo(u))
           /\ \A v : /\ Num(child', At(u), v) = Num(child, At(u), v) + 0
                     /\ Num(child', WriteTo(u), v) = Num(child, WriteTo(u), v) + 0
           /\ Total(printed', At(u)) = Total(printed, At(u)) + 0
           /\ Total(printed', WriteTo(u)) = Total(printed, WriteTo(u)) + 0
           /\ Total(shown', At(u)) = Total(shown, At(u)) + 0
  <1>1. WriteTo(u) \in SUBSET Procs
    BY Groups
  <1>2. /\ Num(parent', WriteTo(u), "gone") = Num(parent, WriteTo(u), "gone")
        /\ Num(parent', WriteTo(u), a) = Num(parent, WriteTo(u), a) - One(p, WriteTo(u))
        /\ Num(parent', WriteTo(u), b) = Num(parent, WriteTo(u), b) + One(p, WriteTo(u))
    BY <1>1, Turns
  <1>3. UNCHANGED <<child, printed, shown>>
    OBVIOUS
  <1> QED
    BY <1>2, <1>3, Naturals

\* And those that a step of its child leaves alone.
LEMMA ChildTurns ==
    ASSUME IInv, NEW p \in Procs, NEW a, NEW b, child[p] = a, child'[p] = b, a # b,
           a # "gone", b # "gone",
           \A q \in Procs \ {p} : child'[q] = child[q], UNCHANGED <<parent, typed>>, NEW u
    PROVE  /\ \A P \in {At(u), WriteTo(u)} :
                /\ Num(child', P, a) = Num(child, P, a) - One(p, P)
                /\ Num(child', P, b) = Num(child, P, b) + One(p, P)
                /\ \A v : v # a /\ v # b => Num(child', P, v) = Num(child, P, v) + 0
                /\ Num(child', P, "gone") = Num(child, P, "gone")
           /\ \A v : Num(parent', WriteTo(u), v) = Num(parent, WriteTo(u), v) + 0
           /\ Total(typed', WriteTo(u)) = Total(typed, WriteTo(u)) + 0
  <1>1. ASSUME NEW P \in {At(u), WriteTo(u)}
        PROVE  /\ Num(child', P, a) = Num(child, P, a) - One(p, P)
               /\ Num(child', P, b) = Num(child, P, b) + One(p, P)
               /\ \A v : v # a /\ v # b => Num(child', P, v) = Num(child, P, v) + 0
               /\ Num(child', P, "gone") = Num(child, P, "gone")
    <2>1. P \in SUBSET Procs
      BY Groups
    <2>2. Num(child', P, a) = Num(child, P, a) - One(p, P)
      BY <2>1, Turns
    <2>3. Num(child', P, b) = Num(child, P, b) + One(p, P)
      BY <2>1, Turns
    <2>4. ASSUME NEW v, v # a, v # b PROVE Num(child', P, v) = Num(child, P, v)
      BY <2>1, <2>4, Turns
    <2>5. \A v : Num(child, P, v) \in Nat
      BY Naturals
    <2> QED
      BY <2>2, <2>3, <2>4, <2>5
  <1>2. UNCHANGED <<parent, typed>>
    OBVIOUS
  <1> QED
    BY <1>1, <1>2, Naturals

LEMMA TypeStep ==
    ASSUME IInv, NEW p \in Procs, Type(p)
    PROVE  IInv'
  <1>1. /\ UNCHANGED <<exists, queue, child, printed, shown>>
        /\ parent[p] = "input" /\ parent'[p] = "sending" /\ \A q \in Procs \ {p} : parent'[q] = parent[q]
        /\ typed[p] < Lines[p] /\ typed' = [typed EXCEPT ![p] = @ + 1]
        /\ parent' \in [Procs -> {"off", "open", "input", "sending", "gone"}]
    BY DEF Type, IInv, TypeOK
  <1>2. \A u : /\ typed' \in [Procs -> Nat]
               /\ Total(typed', WriteTo(u)) = Total(typed, WriteTo(u)) + One(p, WriteTo(u))
    BY <1>1, Groups, Raised DEF IInv
  <1>3. TypeOK'
    <2>1. ASSUME NEW q \in Procs PROVE typed'[q] \in 0 .. Lines[q]
      <3>1. typed[q] \in 0 .. Lines[q] /\ Lines[q] \in Nat /\ typed \in [Procs -> Nat]
        BY QueueAssumption DEF IInv, TypeOK
      <3>2. typed'[q] = IF q = p THEN typed[q] + 1 ELSE typed[q]
        BY <1>1, <3>1
      <3> QED
        BY <1>1, <3>1, <3>2
    <2> QED
      BY <1>1, <2>1 DEF IInv, TypeOK
  <1>4. ASSUME NEW u \in Users PROVE TextsOf(u)' /\ AcksFor(u)'
    <2> DEFINE one == One(p, WriteTo(u))
    <2>1. one \in Int /\ 0 + 0 + one + 0 = one
      BY OneOrNone
    <2>2. /\ Num(parent', WriteTo(u), "gone") = Num(parent, WriteTo(u), "gone")
          /\ Num(parent', WriteTo(u), "sending") = Num(parent, WriteTo(u), "sending") + one
          /\ Num(child', At(u), "print") = Num(child, At(u), "print") + 0
          /\ Num(child', At(u), "show") = Num(child, At(u), "show") + 0
          /\ Num(child', WriteTo(u), "ack") = Num(child, WriteTo(u), "ack") + 0
          /\ Num(child', At(u), "gone") = Num(child, At(u), "gone")
          /\ Num(child', WriteTo(u), "gone") = Num(child, WriteTo(u), "gone")
          /\ Total(printed', At(u)) = Total(printed, At(u)) + 0
          /\ Total(printed', WriteTo(u)) = Total(printed, WriteTo(u)) + 0
          /\ Total(shown', At(u)) = Total(shown, At(u)) + 0
      BY <1>1, ParentTurns, Naturals
    <2>3. InQueue(u)' = InQueue(u) + 0 /\ InQueue(T_MSG + u)' = InQueue(T_MSG + u) + 0
      BY <1>1, QueueTyped, QueueSame
    <2> HIDE DEF one
    <2>4. Total(typed', WriteTo(u)) = Total(typed, WriteTo(u)) + one
      BY <1>2 DEF one
    <2>5. TextsOf(u)'
      BY <2>1, <2>2, <2>3, <2>4, TextsKeep
    <2>6. AcksFor(u)'
      BY <2>2, <2>3, AcksKeep
    <2> QED
      BY <2>5, <2>6
  <1> QED
    BY <1>1, <1>2, <1>3, <1>4 DEF IInv, Started

LEMMA SendTextStep ==
    ASSUME IInv, NEW p \in Procs, SendText(p)
    PROVE  IInv'
  <1>1. /\ UNCHANGED <<exists, child, typed, printed, shown>> /\ Send(receiver_id[p])
        /\ parent[p] = "sending" /\ parent'[p] = "open" /\ \A q \in Procs \ {p} : parent'[q] = parent[q]
        /\ parent' \in [Procs -> {"off", "open", "input", "sending", "gone"}]
    BY DEF SendText, IInv, TypeOK
  <1>2. PICK e \in Users : e = receiver_id[p]
    BY TypesApart
  <1>3. e \in Types /\ \A u : p \in WriteTo(u) <=> u = e
    BY <1>2 DEF Types, WriteTo
  <1>4. \A t : /\ queue' \in Seq(Types) /\ Len(queue') <= Capacity
               /\ InQueue(t) \in Nat /\ InQueue(t)' = InQueue(t) + Same(t, e)
    BY <1>1, <1>2, <1>3, QueueTyped, Sends
  <1>5. TypeOK'
    BY <1>1, <1>4 DEF IInv, TypeOK, Types, Started
  <1>6. ASSUME NEW u \in Users PROVE TextsOf(u)' /\ AcksFor(u)'
    <2> DEFINE one == One(p, WriteTo(u))
    <2>1. one \in Int /\ -one \in Int /\ one + 0 + (-one) + 0 = 0
      BY OneOrNone
    <2>2. /\ Num(parent', WriteTo(u), "gone") = Num(parent, WriteTo(u), "gone")
          /\ Num(parent', WriteTo(u), "sending") = Num(parent, WriteTo(u), "sending") - one
          /\ Num(parent, WriteTo(u), "sending") \in Nat
          /\ Num(child', At(u), "print") = Num(child, At(u), "print") + 0
          /\ Num(child', At(u), "show") = Num(child, At(u), "show") + 0
          /\ Num(child', WriteTo(u), "ack") = Num(child, WriteTo(u), "ack") + 0
          /\ Num(child', At(u), "gone") = Num(child, At(u), "gone")
          /\ Num(child', WriteTo(u), "gone") = Num(child, WriteTo(u), "gone")
          /\ Total(printed', At(u)) = Total(printed, At(u)) + 0
          /\ Total(printed', WriteTo(u)) = Total(printed, WriteTo(u)) + 0
          /\ Total(shown', At(u)) = Total(shown, At(u)) + 0
      BY <1>1, ParentTurns, Naturals
    <2>3. InQueue(u)' = InQueue(u) + one /\ InQueue(T_MSG + u)' = InQueue(T_MSG + u) + 0
      <3>1. Same(u, e) = one /\ Same(T_MSG + u, e) = 0
        BY <1>3, TypesApart DEF Same, One
      <3> QED
        BY <1>4, <3>1
    <2>4. Total(typed', WriteTo(u)) = Total(typed, WriteTo(u)) + 0
      BY <1>1, Naturals
    <2> HIDE DEF one
    <2>5. Num(parent', WriteTo(u), "sending") = Num(parent, WriteTo(u), "sending") + (-one)
      BY <2>1, <2>2
    <2>6. TextsOf(u)'
      BY <2>1, <2>2, <2>3, <2>4, <2>5, TextsKeep
    <2>7. AcksFor(u)'
      BY <2>2, <2>3, AcksKeep
    <2> QED
      BY <2>6, <2>7
  <1> QED
    BY <1>1, <1>5, <1>6 DEF IInv, Started

LEMMA TakeTextStep ==
    ASSUME IInv, NEW p \in Procs, TakeText(p)
    PROVE  IInv'
  <1>1. /\ UNCHANGED <<exists, parent, typed, printed, shown>> /\ Receive(user_id[p])
        /\ child[p] = "texts" /\ child'[p] = "print" /\ \A q \in Procs \ {p} : child'[q] = child[q]
        /\ child' \in [Procs -> {"off", "texts", "print", "ack", "acks", "show", "gone"}]
    BY DEF TakeText, IInv, TypeOK
  <1>2. PICK e \in Users : e = user_id[p]
    BY TypesApart
  <1>3. e \in Types /\ \A u : p \in At(u) <=> u = e
    BY <1>2 DEF Types, At
  <1>4. \A t : /\ queue' \in Seq(Types) /\ Len(queue') = Len(queue) - 1
               /\ exists /\ Len(queue) \in Nat
               /\ InQueue(t) \in Nat /\ InQueue(t)' = InQueue(t) - Same(t, e)
    BY <1>1, <1>2, <1>3, QueueTyped, Receives
  <1>5. TypeOK'
    <2>1. queue' \in Seq(Users \cup {T_MSG + u : u \in Users}) /\ exists
      BY <1>4 DEF Types
    <2>2. Len(queue') <= Capacity
      BY <1>4, TypesApart DEF IInv, TypeOK
    <2> QED
      BY <1>1, <2>1, <2>2 DEF IInv, TypeOK
  <1>6. ASSUME NEW u \in Users PROVE TextsOf(u)' /\ AcksFor(u)'
    <2> DEFINE one == One(p, At(u))
    <2>1. one \in Int /\ -one \in Int /\ (-one) + 0 + 0 + one = 0
      BY OneOrNone
    <2>2. /\ Num(child', At(u), "print") = Num(child, At(u), "print") + one
          /\ Num(child', At(u), "show") = Num(child, At(u), "show") + 0
          /\ Num(child', WriteTo(u), "ack") = Num(child, WriteTo(u), "ack") + 0
          /\ Num(child', At(u), "gone") = Num(child, At(u), "gone")
          /\ Num(child', WriteTo(u), "gone") = Num(child, WriteTo(u), "gone")
          /\ Num(parent', WriteTo(u), "sending") = Num(parent, WriteTo(u), "sending") + 0
          /\ Num(parent', WriteTo(u), "gone") = Num(parent, WriteTo(u), "gone")
          /\ Total(typed', WriteTo(u)) = Total(typed, WriteTo(u)) + 0
      BY <1>1, ChildTurns
    <2>3. /\ Total(printed', At(u)) = Total(printed, At(u)) + 0
          /\ Total(printed', WriteTo(u)) = Total(printed, WriteTo(u)) + 0
          /\ Total(shown', At(u)) = Total(shown, At(u)) + 0
      BY <1>1, Naturals
    <2>4. InQueue(u)' = InQueue(u) + (-one) /\ InQueue(T_MSG + u)' = InQueue(T_MSG + u) + 0
      <3>1. Same(u, e) = one /\ Same(T_MSG + u, e) = 0
        BY <1>3, TypesApart DEF Same, One
      <3>2. /\ InQueue(u) \in Nat /\ InQueue(u)' = InQueue(u) - one
            /\ InQueue(T_MSG + u) \in Nat /\ InQueue(T_MSG + u)' = InQueue(T_MSG + u) - 0
        BY <1>4, <3>1
      <3> HIDE DEF one
      <3> QED
        BY <2>1, <3>2
    <2> HIDE DEF one
    <2>5. TextsOf(u)'
      BY <2>1, <2>2, <2>3, <2>4, TextsKeep
    <2>6. AcksFor(u)'
      BY <2>2, <2>3, <2>4, AcksKeep
    <2> QED
      BY <2>5, <2>6
  <1> QED
    BY <1>1, <1>4, <1>5, <1>6 DEF IInv, Started

LEMMA PrintTextStep ==
    ASSUME IInv, NEW p \in Procs, PrintText(p)
    PROVE  IInv'
  <1>1. /\ UNCHANGED <<exists, queue, parent, typed, shown>>
        /\ child[p] = "print" /\ child'[p] = "ack" /\ \A q \in Procs \ {p} : child'[q] = child[q]
        /\ printed' = [printed EXCEPT ![p] = @ + 1]
        /\ child' \in [Procs -> {"off", "texts", "print", "ack", "acks", "show", "gone"}]
    BY DEF PrintText, IInv, TypeOK
  <1>2. \A u : /\ printed' \in [Procs -> Nat]
               /\ Total(printed', At(u)) = Total(printed, At(u)) + One(p, At(u))
               /\ Total(printed', WriteTo(u)) = Total(printed, WriteTo(u)) + One(p, WriteTo(u))
    BY <1>1, Groups, Raised DEF IInv, TypeOK
  <1>3. TypeOK'
    BY <1>1, <1>2 DEF IInv, TypeOK
  <1>4. ASSUME NEW u \in Users PROVE TextsOf(u)' /\ AcksFor(u)'
    <2> DEFINE at == One(p, At(u))
               to == One(p, WriteTo(u))
    <2>1. /\ at \in Int /\ -at \in Int /\ 0 + at + 0 + (-at) = 0
          /\ to \in Int /\ 0 + 0 + to + 0 = to
      BY OneOrNone
    <2>2. /\ Num(child', At(u), "print") = Num(child, At(u), "print") - at
          /\ Num(child, At(u), "print") \in Nat
          /\ Num(child', At(u), "show") = Num(child, At(u), "show") + 0
          /\ Num(child', WriteTo(u), "ack") = Num(child, WriteTo(u), "ack") + to
          /\ Num(child', At(u), "gone") = Num(child, At(u), "gone")
          /\ Num(child', WriteTo(u), "gone") = Num(child, WriteTo(u), "gone")
          /\ Num(parent', WriteTo(u), "sending") = Num(parent, WriteTo(u), "sending") + 0
          /\ Num(parent', WriteTo(u), "gone") = Num(parent, WriteTo(u), "gone")
          /\ Total(typed', WriteTo(u)) = Total(typed, WriteTo(u)) + 0
      BY <1>1, ChildTurns, Naturals
    <2>3. Total(shown', At(u)) = Total(shown, At(u)) + 0
      BY <1>1, Naturals
    <2>4. InQueue(u)' = InQueue(u) + 0 /\ InQueue(T_MSG + u)' = InQueue(T_MSG + u) + 0
      BY <1>1, QueueTyped, QueueSame
    <2> HIDE DEF at, to
    <2>5. Num(child', At(u), "print") = Num(child, At(u), "print") + (-at)
      BY <2>1, <2>2
    <2>6. /\ Total(printed', At(u)) = Total(printed, At(u)) + at
          /\ Total(printed', WriteTo(u)) = Total(printed, WriteTo(u)) + to
      BY <1>2 DEF at, to
    <2>7. TextsOf(u)'
      BY <2>1, <2>2, <2>4, <2>5, <2>6, TextsKeep
    <2>8. AcksFor(u)'
      BY <2>1, <2>2, <2>3, <2>4, <2>6, AcksKeep
    <2> QED
      BY <2>7, <2>8
  <1> QED
    BY <1>1, <1>3, <1>4 DEF IInv, Started

LEMMA SendAckStep ==
    ASSUME IInv, NEW p \in Procs, SendAck(p)
    PROVE  IInv'
  <1>1. /\ UNCHANGED <<exists, parent, typed, printed, shown>> /\ Send(T_MSG + receiver_id[p])
        /\ child[p] = "ack" /\ child'[p] = "acks" /\ \A q \in Procs \ {p} : child'[q] = child[q]
        /\ child' \in [Procs -> {"off", "texts", "print", "ack", "acks", "show", "gone"}]
    BY DEF SendAck, AckType, IInv, TypeOK
  <1>2. PICK v \in Users : v = receiver_id[p]
    BY TypesApart
  <1>3. PICK e \in Types : e = T_MSG + v /\ e \notin Users
    BY TypesApart DEF Types
  <1>4. \A t : /\ queue' \in Seq(Types) /\ Len(queue') <= Capacity
               /\ InQueue(t) \in Nat /\ InQueue(t)' = InQueue(t) + Same(t, e)
    BY <1>1, <1>2, <1>3, QueueTyped, Sends
  <1>5. TypeOK'
    BY <1>1, <1>4 DEF IInv, TypeOK, Types, Started
  <1>6. ASSUME NEW u \in Users PROVE TextsOf(u)' /\ AcksFor(u)'
    <2> DEFINE one == One(p, WriteTo(u))
    <2>1. one \in Int /\ -one \in Int /\ one + 0 + (-one) + 0 = 0
      BY OneOrNone
    <2>2. /\ Num(child', At(u), "print") = Num(child, At(u), "print") + 0
          /\ Num(child', At(u), "show") = Num(child, At(u), "show") + 0
          /\ Num(child', WriteTo(u), "ack") = Num(child, WriteTo(u), "ack") - one
          /\ Num(child, WriteTo(u), "ack") \in Nat
          /\ Num(child', At(u), "gone") = Num(child, At(u), "gone")
          /\ Num(child', WriteTo(u), "gone") = Num(child, WriteTo(u), "gone")
          /\ Num(parent', WriteTo(u), "sending") = Num(parent, WriteTo(u), "sending") + 0
          /\ Num(parent', WriteTo(u), "gone") = Num(parent, WriteTo(u), "gone")
          /\ Total(typed', WriteTo(u)) = Total(typed, WriteTo(u)) + 0
      BY <1>1, ChildTurns, Naturals
    <2>3. /\ Total(printed', At(u)) = Total(printed, At(u)) + 0
          /\ Total(printed', WriteTo(u)) = Total(printed, WriteTo(u)) + 0
          /\ Total(shown', At(u)) = Total(shown, At(u)) + 0
      BY <1>1, Naturals
    <2>4. InQueue(u)' = InQueue(u) + 0 /\ InQueue(T_MSG + u)' = InQueue(T_MSG + u) + one
      <3>1. Same(T_MSG + u, e) = one
        BY <1>2, <1>3, TypesApart DEF Same, One, WriteTo
      <3>2. Same(u, e) = 0
        BY <1>3 DEF Same
      <3> QED
        BY <1>4, <3>1, <3>2
    <2> HIDE DEF one
    <2>5. Num(child', WriteTo(u), "ack") = Num(child, WriteTo(u), "ack") + (-one)
      BY <2>1, <2>2
    <2>6. TextsOf(u)'
      BY <2>2, <2>3, <2>4, TextsKeep
    <2>7. AcksFor(u)'
      BY <2>1, <2>2, <2>3, <2>4, <2>5, AcksKeep
    <2> QED
      BY <2>6, <2>7
  <1> QED
    BY <1>1, <1>5, <1>6 DEF IInv, Started

LEMMA TakeAckStep ==
    ASSUME IInv, NEW p \in Procs, TakeAck(p)
    PROVE  IInv'
  <1>1. /\ UNCHANGED <<exists, parent, typed, printed, shown>> /\ Receive(T_MSG + user_id[p])
        /\ child[p] = "acks" /\ child'[p] = "show" /\ \A q \in Procs \ {p} : child'[q] = child[q]
        /\ child' \in [Procs -> {"off", "texts", "print", "ack", "acks", "show", "gone"}]
    BY DEF TakeAck, IInv, TypeOK
  <1>2. PICK v \in Users : v = user_id[p]
    BY TypesApart
  <1>3. PICK e \in Types : e = T_MSG + v /\ e \notin Users
    BY TypesApart DEF Types
  <1>4. \A t : /\ queue' \in Seq(Types) /\ Len(queue') = Len(queue) - 1
               /\ exists /\ Len(queue) \in Nat
               /\ InQueue(t) \in Nat /\ InQueue(t)' = InQueue(t) - Same(t, e)
    BY <1>1, <1>2, <1>3, QueueTyped, Receives
  <1>5. TypeOK'
    <2>1. queue' \in Seq(Users \cup {T_MSG + u : u \in Users}) /\ exists
      BY <1>4 DEF Types
    <2>2. Len(queue') <= Capacity
      BY <1>4, TypesApart DEF IInv, TypeOK
    <2> QED
      BY <1>1, <2>1, <2>2 DEF IInv, TypeOK
  <1>6. ASSUME NEW u \in Users PROVE TextsOf(u)' /\ AcksFor(u)'
    <2> DEFINE one == One(p, At(u))
    <2>1. one \in Int /\ -one \in Int /\ (-one) + 0 + 0 + one = 0
      BY OneOrNone
    <2>2. /\ Num(child', At(u), "print") = Num(child, At(u), "print") + 0
          /\ Num(child', At(u), "show") = Num(child, At(u), "show") + one
          /\ Num(child', WriteTo(u), "ack") = Num(child, WriteTo(u), "ack") + 0
          /\ Num(child', At(u), "gone") = Num(child, At(u), "gone")
          /\ Num(child', WriteTo(u), "gone") = Num(child, WriteTo(u), "gone")
          /\ Num(parent', WriteTo(u), "sending") = Num(parent, WriteTo(u), "sending") + 0
          /\ Num(parent', WriteTo(u), "gone") = Num(parent, WriteTo(u), "gone")
          /\ Total(typed', WriteTo(u)) = Total(typed, WriteTo(u)) + 0
      BY <1>1, ChildTurns
    <2>3. /\ Total(printed', At(u)) = Total(printed, At(u)) + 0
          /\ Total(printed', WriteTo(u)) = Total(printed, WriteTo(u)) + 0
          /\ Total(shown', At(u)) = Total(shown, At(u)) + 0
      BY <1>1, Naturals
    <2>4. InQueue(u)' = InQueue(u) + 0 /\ InQueue(T_MSG + u)' = InQueue(T_MSG + u) + (-one)
      <3>1. Same(T_MSG + u, e) = one
        BY <1>2, <1>3, TypesApart DEF Same, One, At
      <3>2. Same(u, e) = 0
        BY <1>3 DEF Same
      <3>3. /\ InQueue(u) \in Nat /\ InQueue(u)' = InQueue(u) - 0
            /\ InQueue(T_MSG + u) \in Nat /\ InQueue(T_MSG + u)' = InQueue(T_MSG + u) - one
        BY <1>4, <3>1, <3>2
      <3> HIDE DEF one
      <3> QED
        BY <2>1, <3>3
    <2> HIDE DEF one
    <2>5. TextsOf(u)'
      BY <2>2, <2>3, <2>4, TextsKeep
    <2>6. AcksFor(u)'
      BY <2>1, <2>2, <2>3, <2>4, AcksKeep
    <2> QED
      BY <2>5, <2>6
  <1> QED
    BY <1>1, <1>4, <1>5, <1>6 DEF IInv, Started

LEMMA ShowAckStep ==
    ASSUME IInv, NEW p \in Procs, ShowAck(p)
    PROVE  IInv'
  <1>1. /\ UNCHANGED <<exists, queue, parent, typed, printed>>
        /\ child[p] = "show" /\ child'[p] = "texts" /\ \A q \in Procs \ {p} : child'[q] = child[q]
        /\ shown' = [shown EXCEPT ![p] = @ + 1]
        /\ child' \in [Procs -> {"off", "texts", "print", "ack", "acks", "show", "gone"}]
    BY DEF ShowAck, IInv, TypeOK
  <1>2. \A u : /\ shown' \in [Procs -> Nat]
               /\ Total(shown', At(u)) = Total(shown, At(u)) + One(p, At(u))
    BY <1>1, Groups, Raised DEF IInv, TypeOK
  <1>3. TypeOK'
    BY <1>1, <1>2 DEF IInv, TypeOK
  <1>4. ASSUME NEW u \in Users PROVE TextsOf(u)' /\ AcksFor(u)'
    <2> DEFINE one == One(p, At(u))
    <2>1. one \in Int /\ -one \in Int /\ 0 + one + 0 + (-one) = 0
      BY OneOrNone
    <2>2. /\ Num(child', At(u), "print") = Num(child, At(u), "print") + 0
          /\ Num(child', At(u), "show") = Num(child, At(u), "show") - one
          /\ Num(child, At(u), "show") \in Nat
          /\ Num(child', WriteTo(u), "ack") = Num(child, WriteTo(u), "ack") + 0
          /\ Num(child', At(u), "gone") = Num(child, At(u), "gone")
          /\ Num(child', WriteTo(u), "gone") = Num(child, WriteTo(u), "gone")
          /\ Num(parent', WriteTo(u), "sending") = Num(parent, WriteTo(u), "sending") + 0
          /\ Num(parent', WriteTo(u), "gone") = Num(parent, WriteTo(u), "gone")
          /\ Total(typed', WriteTo(u)) = Total(typed, WriteTo(u)) + 0
      BY <1>1, ChildTurns, Naturals
    <2>3. /\ Total(printed', At(u)) = Total(printed, At(u)) + 0
          /\ Total(printed', WriteTo(u)) = Total(printed, WriteTo(u)) + 0
      BY <1>1, Naturals
    <2>4. InQueue(u)' = InQueue(u) + 0 /\ InQueue(T_MSG + u)' = InQueue(T_MSG + u) + 0
      BY <1>1, QueueTyped, QueueSame
    <2> HIDE DEF one
    <2>5. /\ Num(child', At(u), "show") = Num(child, At(u), "show") + (-one)
          /\ Total(shown', At(u)) = Total(shown, At(u)) + one
      BY <1>2, <2>1, <2>2 DEF one
    <2>6. TextsOf(u)'
      BY <2>2, <2>3, <2>4, TextsKeep
    <2>7. AcksFor(u)'
      BY <2>1, <2>2, <2>3, <2>4, <2>5, AcksKeep
    <2> QED
      BY <2>6, <2>7
  <1> QED
    BY <1>1, <1>3, <1>4 DEF IInv, Started

\* The invariant holds in every reachable state of the chat over the message queue.
THEOREM Invariance == Spec => []IInv
  <1>1. IInv /\ [Next]_vars => IInv'
    <2> SUFFICES ASSUME IInv, [Next]_vars PROVE IInv'
      OBVIOUS
    <2>1. CASE UNCHANGED vars
      BY <2>1 DEF vars, IInv, TypeOK, Started, TextsOf, AcksFor, InQueue, Positions, At, WriteTo
    <2>2. ASSUME NEW p \in Procs, Parent(p) \/ Child(p) \/ User(p) PROVE IInv'
      BY <2>2, QuietActions, TypeStep, SendTextStep, TakeTextStep, PrintTextStep,
         SendAckStep, TakeAckStep, ShowAckStep
         DEF Parent, Child, User
    <2> QED
      BY <2>1, <2>2 DEF Next
  <1> QED
    BY Initially, <1>1, PTL DEF Spec

\* No text is lost on its way and none is printed twice: every line typed for a user
\* is waiting to be sent, in the queue, about to be printed, or printed, except those
\* that a sender or a receiver who ended had in its hands (the msgsnd of the parent,
\* the msgrcv of the child).
THEOREM TextsKept == Spec => []QueueInv
  <1>1. IInv => QueueInv
    BY DEF IInv, QueueInv, TextsOf, Num, Those, ParentsTo, ChildrenAt
  <1> QED
    BY Invariance, <1>1, PTL

\* The acknowledgements for a user are as many as the texts that those who write to
\* the user have printed (the msgsnd of the child, whose type is the number of the
\* user its parent writes to and T_MSG), less those in the hands of who was killed.
THEOREM AcksKept == Spec => []AcksMatch
  <1>1. IInv => AcksMatch
    BY DEF IInv, AcksMatch, AcksFor, Num, Those, ChildrenTo, ChildrenAt
  <1> QED
    BY Invariance, <1>1, PTL
=============================================================================
