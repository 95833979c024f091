------------------------- MODULE DocumentImagesProofs -------------------------
(***************************************************************************)
(* Proofs about DocumentImages, for any documents, images and cap, under     *)
(* every fault.  Two theorems need that a failed upsert was not applied:      *)
(* when one was, image_chunk_offset stays 0 and the tables overwrite the      *)
(* figures.                                                                  *)
(*                                                                         *)
(* The invariant follows a document through its two lists: what was passed    *)
(* is captioned, relied on or on record (Handled), a list that ended is in     *)
(* full (Covered), and who relies on a document finds a point of it (Relied). *)
(***************************************************************************)
EXTENDS DocumentImages, FiniteSetTheorems, SequenceTheorems, TLAPS

-----------------------------------------------------------------------------
(* The lists of a document.                                                 *)

\* Positions in a list count its members: a one-to-one map into 1 .. n is onto.
LEMMA PlaceOnto ==
  ASSUME NEW U \in SUBSET Nat, IsFiniteSet(U), NEW n \in 1 .. Cardinality(U)
  PROVE  \E i \in U : Cardinality({j \in U : j <= i}) = n
<1> DEFINE upTo(i) == {j \in U : j <= i}
           f == [i \in U |-> Cardinality(upTo(i))]
<1>1. Cardinality(U) \in Nat
  BY FS_CardinalityType
<1>2. \A i \in U : IsFiniteSet(upTo(i)) /\ Cardinality(upTo(i)) \in 1 .. Cardinality(U)
  <2> SUFFICES ASSUME NEW i \in U
               PROVE  IsFiniteSet(upTo(i)) /\ Cardinality(upTo(i)) \in 1 .. Cardinality(U)
    OBVIOUS
  <2>1. IsFiniteSet(upTo(i)) /\ Cardinality(upTo(i)) <= Cardinality(U)
    BY FS_Subset
  <2>2. Cardinality(upTo(i)) \in Nat
    BY <2>1, FS_CardinalityType
  <2>3. i \in upTo(i)
    OBVIOUS
  <2>4. Cardinality(upTo(i)) # 0
    BY <2>1, <2>3, FS_EmptySet
  <2> HIDE DEF upTo
  <2> QED BY <1>1, <2>1, <2>2, <2>4
<1>3. ASSUME NEW i \in U, NEW k \in U, i < k PROVE f[i] # f[k]
  <2>1. upTo(i) \in SUBSET upTo(k) /\ k \in upTo(k) /\ k \notin upTo(i)
    <3>1. i \in Nat /\ k \in Nat /\ \A j \in U : j \in Nat
      OBVIOUS
    <3>2. \A j \in U : j <= i => j <= k
      BY <1>3, <3>1
    <3>3. upTo(i) \in SUBSET upTo(k)
      BY <3>2
    <3>4. k \in upTo(k) /\ k \notin upTo(i)
      BY <1>3, <3>1
    <3> QED BY <3>3, <3>4
  <2>2. Cardinality(upTo(i)) # Cardinality(upTo(k))
    BY <1>2, <2>1, FS_Subset
  <2> QED BY <2>2
<1>4. f \in Injection(U, 1 .. Cardinality(U))
  <2>1. f \in [U -> 1 .. Cardinality(U)]
    BY <1>2
  <2>2. \A i, k \in U : i # k => f[i] # f[k]
    <3> SUFFICES ASSUME NEW i \in U, NEW k \in U, i # k PROVE f[i] # f[k]
      OBVIOUS
    <3>1. i < k \/ k < i
      OBVIOUS
    <3> HIDE DEF f
    <3> QED BY <1>3, <3>1
  <2> HIDE DEF f
  <2> QED BY <2>1, <2>2 DEF Injection, IsInjective
<1>5. f \in Surjection(U, 1 .. Cardinality(U))
  <2>1. IsFiniteSet(1 .. Cardinality(U)) /\ Cardinality(1 .. Cardinality(U)) = Cardinality(U)
    BY <1>1, FS_Interval
  <2> HIDE DEF f
  <2> QED BY <1>4, <2>1, FS_Injection
<1>6. PICK i \in U : f[i] = n
  <2> HIDE DEF f
  <2> QED BY <1>5 DEF Surjection
<1> QED BY <1>6

\* What a job works on: hashes, as many as the cap allows.
LEMMA ElementsType ==
  ASSUME DocTypeOK, NEW d \in Doc, NEW l \in Lists
  PROVE  /\ Elements(d, l) \in Seq(Hash) /\ Len(Elements(d, l)) \in 0 .. Cap
         /\ Kind(d) = "image" => Len(Elements(d, "figures")) <= 1
         /\ Kind(d) # "pdf" => Len(Elements(d, "tables")) = 0
<1>1. shape[d] \in Shapes /\ shape[d].figures \in Seq(Hash) /\ shape[d].tables \in Seq(Tables)
  BY ShapesAssumption DEF DocTypeOK
<1>2. Unreliable(d) \in SUBSET Nat /\ IsFiniteSet(Unreliable(d))
  <2>1. Unreliable(d) \in SUBSET (1 .. Len(shape[d].tables)) /\ Len(shape[d].tables) \in Nat
    BY <1>1 DEF Unreliable
  <2>2. IsFiniteSet(1 .. Len(shape[d].tables))
    BY <2>1, FS_Interval
  <2> QED BY <2>1, <2>2, FS_Subset
<1>3. Cardinality(Unreliable(d)) \in Nat
  BY <1>2, FS_CardinalityType
<1>4. NeedsVision(d) \in Seq(Hash) /\ Len(NeedsVision(d)) = Cardinality(Unreliable(d))
  <2> DEFINE e(n) == shape[d].tables[CHOOSE i \in Unreliable(d) : Place(d, i) = n].hash
  <2>1. \A n \in 1 .. Cardinality(Unreliable(d)) : e(n) \in Hash
    <3> SUFFICES ASSUME NEW n \in 1 .. Cardinality(Unreliable(d)) PROVE e(n) \in Hash
      OBVIOUS
    <3>1. (CHOOSE i \in Unreliable(d) : Place(d, i) = n) \in Unreliable(d)
      <4>1. \E i \in Unreliable(d) : Place(d, i) = n
        BY <1>2, PlaceOnto DEF Place
      <4> QED BY <4>1
    <3>2. \A i \in Unreliable(d) : shape[d].tables[i] \in Tables
      BY <1>1 DEF Unreliable
    <3> QED BY <3>1, <3>2 DEF Tables
  <2>2. NeedsVision(d) = [n \in 1 .. Cardinality(Unreliable(d)) |-> e(n)]
    BY DEF NeedsVision
  <2> HIDE DEF e
  <2> QED BY <1>3, <2>1, <2>2
<1>5. \A s \in Seq(Hash) : Capped(s) \in Seq(Hash) /\ Len(Capped(s)) \in 0 .. Cap /\ Len(Capped(s)) <= Len(s)
  <2> SUFFICES ASSUME NEW s \in Seq(Hash)
               PROVE  /\ Capped(s) \in Seq(Hash) /\ Len(Capped(s)) \in 0 .. Cap
                      /\ Len(Capped(s)) <= Len(s)
    OBVIOUS
  <2> DEFINE n == IF Len(s) < Cap THEN Len(s) ELSE Cap
  <2>1. n \in 0 .. Cap /\ n <= Len(s) /\ n \in Int /\ \A i \in 1 .. n : s[i] \in Hash
    BY CapAssumption
  <2>2. Capped(s) = SubSeq(s, 1, n)
    BY DEF Capped
  <2> HIDE DEF n
  <2>3. SubSeq(s, 1, n) \in Seq(Hash) /\ Len(SubSeq(s, 1, n)) = IF 1 <= n THEN n - 1 + 1 ELSE 0
    BY <2>1, SubSeqProperties
  <2> QED BY <2>1, <2>2, <2>3, CapAssumption
<1>6. Elements(d, "figures") = Capped(shape[d].figures) /\ Elements(d, "tables") = Capped(NeedsVision(d))
  BY DEF Elements
<1>7. Kind(d) = "image" => Len(Elements(d, "figures")) <= 1
  <2>1. Kind(d) = "image" => Len(shape[d].figures) = 1
    BY <1>1, ShapesAssumption DEF Kind
  <2> QED BY <1>1, <1>5, <1>6, <2>1
<1>8. Kind(d) # "pdf" => Len(Elements(d, "tables")) = 0
  <2> SUFFICES ASSUME Kind(d) # "pdf" PROVE Len(Elements(d, "tables")) = 0
    OBVIOUS
  <2>1. shape[d].tables = << >>
    BY <1>1, ShapesAssumption DEF Kind
  <2>2. Unreliable(d) = {}
    BY <2>1 DEF Unreliable
  <2>3. Len(NeedsVision(d)) = 0
    BY <1>4, <2>2, FS_EmptySet
  <2>4. Len(Elements(d, "tables")) \in 0 .. Cap /\ Len(Elements(d, "tables")) <= 0
    BY <1>4, <1>5, <1>6, <2>3
  <2> HIDE DEF Elements
  <2> QED BY <2>4, CapAssumption
<1> QED BY <1>1, <1>4, <1>5, <1>6, <1>7, <1>8 DEF Lists

-----------------------------------------------------------------------------
(* What holds of a document at each place of its job.                       *)

Known(d, h) == h \in lost[d] \/ \E x \in Doc : <<h, x>> \in relies[d]
Captioned(d, h) == \E i \in 1 .. Len(results[d]) : results[d][i] = h
Ended(d, l) == \/ Settled(d) \/ pc[d] \in {"counting", "finishing"}
               \/ l = "figures" /\ pc[d] = "tables"

Rested(d) ==
  pc[d] \in {"idle", "clearing"} =>
    at[d] = 1 /\ seen[d] = {} /\ results[d] = << >> /\ offset[d] = 0 /\ indexed[d] = 0

\* No failed upsert was applied.
Definite == "upsertUnknown" \notin Faults

\* The points of the figures lie below the offset, those of the tables above;
\* unless the figures were applied and counted as failed.
Below(d) == \A p \in PointsOf(d) : p.index < offset[d]
Placed(d) ==
  /\ pc[d] = "figures" => offset[d] = 0 /\ indexed[d] = 0 /\ PointsOf(d) = {}
  /\ pc[d] = "tables" => /\ Kind(d) = "pdf" /\ indexed[d] <= Cap
                         /\ \A p \in PointsOf(d) : p.from = "figures"
                         /\ Below(d) \/ indexed[d] = 0
                         /\ "upsertUnknown" \notin Faults => Below(d)

Once(d) ==
  Kind(d) = "pdf" =>
    /\ \A i, k \in 1 .. Len(results[d]) : results[d][i] = results[d][k] => i = k
    /\ \A i \in 1 .. Len(results[d]) : results[d][i] \in seen[d]
    /\ \A p, q \in PointsOf(d) : p.hash = q.hash /\ p.from = q.from => p = q

Handled(d) ==
  /\ pc[d] \in Lists =>
       \A i \in 1 .. Len(Elements(d, pc[d])) : i < at[d] =>
         LET h == Elements(d, pc[d])[i] IN Exempt(d, h) \/ Known(d, h) \/ Captioned(d, h)
  /\ \A h \in seen[d] : Known(d, h) \/ Captioned(d, h)

Covered(d) ==
  \A l \in Lists : Ended(d, l) =>
    \A i \in 1 .. Len(Elements(d, l)) : Exempt(d, Elements(d, l)[i]) \/ Known(d, Elements(d, l)[i])

Tallied(d) ==
  /\ IsFiniteSet(PointsOf(d))
  /\ pc[d] \in Lists \cup {"counting", "finishing"} => indexed[d] <= Cardinality(PointsOf(d))
  /\ ingested[d] = 0 => pc[d] = "idle" /\ count[d] = 0 /\ ~Settled(d)
  /\ ingested[d] = 1 => /\ pc[d] \in Lists \cup {"clearing", "counting"} => count[d] = 0
                        /\ pc[d] = "finishing" \/ Settled(d) => count[d] <= Cardinality(PointsOf(d))

DocInv(d) == Rested(d) /\ Placed(d) /\ Once(d) /\ Handled(d) /\ Covered(d) /\ Tallied(d)

\* Who relies on a document finds a point of it in its own tenant, unless the
\* point was overwritten.
Relied == "upsertUnknown" \notin Faults =>
            \A d, x \in Doc, h \in Hash : <<h, x>> \in relies[d] =>
              tenant[x] = tenant[d] /\ \E p \in PointsOf(x) : p.hash = h

IInv == TypeOK /\ Relied /\ \A d \in Doc : DocInv(d)

-----------------------------------------------------------------------------
LEMMA Start0 == Init => IInv
<1> SUFFICES ASSUME Init PROVE IInv
  OBVIOUS
<1>1. TypeOK
  <2>1. Cap \in Nat /\ Cap >= 1 /\ Ingestions \in Nat
    BY CapAssumption, IngestionsAssumption
  <2>2. DocTypeOK
    BY <2>1 DEF Init, DocTypeOK
  <2>3. PointTypeOK
    BY DEF Init, PointTypeOK
  <2>4. JobTypeOK
    BY <2>1 DEF Init, JobTypeOK
  <2> QED BY <2>2, <2>3, <2>4 DEF TypeOK
<1>2. Relied
  BY DEF Init, Relied
<1>3. ASSUME NEW d \in Doc PROVE DocInv(d)
  <2>1. /\ pc[d] = "idle" /\ status[d] = "UPLOADED" /\ at[d] = 1 /\ seen[d] = {} /\ results[d] = << >>
        /\ offset[d] = 0 /\ indexed[d] = 0 /\ count[d] = 0 /\ ingested[d] = 0
        /\ PointsOf(d) = {}
    BY DEF Init, PointsOf
  <2>2. Rested(d) /\ Placed(d)
    BY <2>1 DEF Rested, Placed, Below
  <2>3. Once(d) /\ Handled(d)
    BY <2>1 DEF Once, Handled, Lists
  <2>4. Covered(d)
    BY <2>1 DEF Covered, Ended, Settled
  <2>5. Tallied(d)
    BY <2>1, FS_EmptySet DEF Tallied, Settled, Lists
  <2> QED BY <2>2, <2>3, <2>4, <2>5 DEF DocInv
<1> QED BY <1>1, <1>2, <1>3 DEF IInv

\* What the work on one document leaves to the others.
Apart(d) ==
  /\ tenant' = tenant /\ shape' = shape
  /\ \A x \in Doc \ {d} :
       /\ status'[x] = status[x] /\ count'[x] = count[x] /\ ingested'[x] = ingested[x]
       /\ pc'[x] = pc[x] /\ at'[x] = at[x] /\ seen'[x] = seen[x] /\ results'[x] = results[x]
       /\ offset'[x] = offset[x] /\ indexed'[x] = indexed[x]
       /\ PointsOf(x)' = PointsOf(x)
       /\ \A h : Known(x, h) => Known(x, h)'

LEMMA SameShape ==
  ASSUME shape' = shape, NEW d
  PROVE  /\ Kind(d)' = Kind(d) /\ \A l : Elements(d, l)' = Elements(d, l)
         /\ \A h : Exempt(d, h)' = Exempt(d, h)
BY DEF Kind, Elements, NeedsVision, Unreliable, Place, Exempt, Capped

LEMMA OneDoc ==
  ASSUME IInv, NEW d \in Doc, Apart(d), TypeOK', Relied', DocInv(d)'
  PROVE  IInv'
<1> SUFFICES ASSUME NEW x \in Doc \ {d} PROVE DocInv(x)'
  BY DEF IInv
<1>1. DocInv(x)
  BY DEF IInv
<1>2. /\ status'[x] = status[x] /\ count'[x] = count[x] /\ ingested'[x] = ingested[x]
      /\ pc'[x] = pc[x] /\ at'[x] = at[x] /\ seen'[x] = seen[x] /\ results'[x] = results[x]
      /\ offset'[x] = offset[x] /\ indexed'[x] = indexed[x]
      /\ PointsOf(x)' = PointsOf(x)
  BY DEF Apart
<1>3. \A h : Known(x, h) => Known(x, h)'
  BY DEF Apart
<1>4. /\ Kind(x)' = Kind(x) /\ \A l : Elements(x, l)' = Elements(x, l)
      /\ \A h : Exempt(x, h)' = Exempt(x, h)
  BY SameShape DEF Apart
<1>5. Rested(x)' /\ Placed(x)' /\ Once(x)'
  BY <1>1, <1>2, <1>4 DEF DocInv, Rested, Placed, Below, Once
<1>6. \A h : Captioned(x, h)' = Captioned(x, h)
  BY <1>2 DEF Captioned
<1>7. Handled(x)'
  BY <1>1, <1>2, <1>3, <1>4, <1>6 DEF DocInv, Handled
<1>8. Covered(x)'
  BY <1>1, <1>2, <1>3, <1>4 DEF DocInv, Covered, Ended, Settled
<1>9. Tallied(x)'
  BY <1>1, <1>2 DEF DocInv, Tallied, Settled
<1> QED BY <1>5, <1>7, <1>8, <1>9 DEF DocInv

-----------------------------------------------------------------------------
(* The elements of a list, one by one.                                      *)

\* What every way of passing an element h has in common: s is noted as seen, w is
\* lost, and V is relied on.
Passed(d, h, s, w, V) ==
  /\ s \in SUBSET {h} /\ seen' = [seen EXCEPT ![d] = @ \cup s]
  /\ w \in SUBSET {h} /\ lost' = [lost EXCEPT ![d] = @ \cup w]
  /\ V \in SUBSET {<<h, x>> : x \in Holders(d, h)} /\ relies' = [relies EXCEPT ![d] = @ \cup V]
  /\ \/ /\ results' = results
        /\ Exempt(d, h) \/ h \in seen[d] \/ w = {h} \/ V # {}
        /\ s = {} \/ w = {h} \/ V # {}
     \/ /\ results' = [results EXCEPT ![d] = Append(@, h)]
        /\ Kind(d) = "pdf" => s = {h} /\ h \notin seen[d]

LEMMA Passing ==
  ASSUME IInv, NEW d \in Doc, Examining(d), Passes(d), NEW h, h = Element(d),
         NEW s, NEW w, NEW V, Passed(d, h, s, w, V)
  PROVE  IInv'
<1> DEFINE E == Elements(d, pc[d])
<1>1. /\ pc[d] \in Lists /\ E \in Seq(Hash) /\ Len(E) \in 0 .. Cap /\ at[d] \in 1 .. Len(E)
      /\ h = E[at[d]] /\ h \in Hash /\ Cap \in Nat
  <2>1. pc[d] \in Lists /\ at[d] \in 1 .. Cap + 1 /\ at[d] <= Len(E) /\ h = E[at[d]]
    BY DEF Examining, Element, IInv, TypeOK, JobTypeOK, Lists
  <2>2. E \in Seq(Hash) /\ Len(E) \in 0 .. Cap
    BY <2>1, ElementsType DEF IInv, TypeOK
  <2> HIDE DEF E
  <2> QED BY <2>1, <2>2, CapAssumption
<1> HIDE DEF E
<1>2. /\ at' = [at EXCEPT ![d] = @ + 1]
      /\ UNCHANGED <<tenant, shape, status, count, ingested, points, pc, offset, indexed>>
      /\ s \in SUBSET {h} /\ seen' = [seen EXCEPT ![d] = @ \cup s]
      /\ w \in SUBSET {h} /\ lost' = [lost EXCEPT ![d] = @ \cup w]
      /\ relies' = [relies EXCEPT ![d] = @ \cup V]
      /\ \/ /\ results' = results
            /\ Exempt(d, h) \/ h \in seen[d] \/ w = {h} \/ V # {}
            /\ s = {} \/ w = {h} \/ V # {}
         \/ /\ results' = [results EXCEPT ![d] = Append(@, h)]
            /\ Kind(d) = "pdf" => s = {h} /\ h \notin seen[d]
  BY DEF Passes, docVars, Passed
<1>3. \A v \in V : \E x \in Doc : /\ v = <<h, x>> /\ tenant[x] = tenant[d]
                               /\ \E p \in PointsOf(x) : p.hash = h
  <2>1. \A p \in points : p.doc \in Doc
    BY DEF IInv, TypeOK, PointTypeOK
  <2> QED BY <2>1 DEF Holders, PointsOf, Passed
<1>4. DocTypeOK'
  <2>1. relies' \in [Doc -> SUBSET (Hash \X Doc)]
    <3>1. relies[d] \cup V \in SUBSET (Hash \X Doc)
      BY <1>1, <1>3 DEF IInv, TypeOK, DocTypeOK
    <3> QED BY <1>2, <3>1 DEF IInv, TypeOK, DocTypeOK
  <2>2. lost' \in [Doc -> SUBSET Hash]
    BY <1>1, <1>2 DEF IInv, TypeOK, DocTypeOK
  <2> QED BY <1>2, <2>1, <2>2 DEF IInv, TypeOK, DocTypeOK
<1>5. /\ results'[d] = results[d] \/ results'[d] = Append(results[d], h)
      /\ results' \in [Doc -> Seq(Hash)] /\ \A x \in Doc \ {d} : results'[x] = results[x]
      /\ Len(results'[d]) \in Nat /\ Len(results'[d]) <= Len(results[d]) + 1
      /\ Len(results[d]) \in Nat /\ Len(results[d]) < at[d]
      /\ \A i \in 1 .. Len(results[d]) : i \in 1 .. Len(results'[d]) /\ results'[d][i] = results[d][i]
  <2>1. results \in [Doc -> Seq(Hash)] /\ results[d] \in Seq(Hash)
        /\ Len(results[d]) \in Nat /\ Len(results[d]) < at[d]
    BY DEF IInv, TypeOK, JobTypeOK
  <2>2. CASE results' = results
    BY <2>1, <2>2
  <2>3. CASE results' = [results EXCEPT ![d] = Append(@, h)]
    <3>1. results'[d] = Append(results[d], h) /\ \A x \in Doc \ {d} : results'[x] = results[x]
      BY <2>1, <2>3
    <3>2. /\ Append(results[d], h) \in Seq(Hash)
          /\ Len(Append(results[d], h)) = Len(results[d]) + 1
          /\ \A i \in 1 .. Len(results[d]) : Append(results[d], h)[i] = results[d][i]
      BY <1>1, <2>1
    <3>3. results' \in [Doc -> Seq(Hash)]
      BY <2>1, <2>3, <3>2
    <3> QED BY <2>1, <3>1, <3>2, <3>3
  <2> QED BY <1>2, <2>2, <2>3
<1>6. JobTypeOK'
  <2>1. at' \in [Doc -> 1 .. Cap + 1] /\ seen' \in [Doc -> SUBSET Hash]
    BY <1>1, <1>2 DEF IInv, TypeOK, JobTypeOK
  <2>2. \A x \in Doc : Len(results'[x]) < at'[x]
    <3>1. Len(results'[d]) < at'[d]
      BY <1>1, <1>2, <1>5 DEF IInv, TypeOK, JobTypeOK
    <3>2. \A x \in Doc \ {d} : Len(results'[x]) < at'[x]
      BY <1>2, <1>5 DEF IInv, TypeOK, JobTypeOK
    <3> QED BY <3>1, <3>2
  <2> QED BY <1>2, <1>5, <2>1, <2>2 DEF IInv, TypeOK, JobTypeOK
<1>7. TypeOK'
  BY <1>2, <1>4, <1>6 DEF IInv, TypeOK, PointTypeOK
<1>8. /\ \A x \in Doc : PointsOf(x)' = PointsOf(x)
      /\ \A x \in Doc : \A g : Known(x, g) => Known(x, g)'
      /\ w = {h} \/ V # {} => Known(d, h)'
  <2>1. \A x \in Doc : PointsOf(x)' = PointsOf(x)
    BY <1>2 DEF PointsOf
  <2>2. \A x \in Doc : lost[x] \subseteq lost'[x] /\ relies[x] \subseteq relies'[x]
    BY <1>2 DEF IInv, TypeOK, DocTypeOK
  <2>3. w \subseteq lost'[d] /\ V \subseteq relies'[d]
    BY <1>2 DEF IInv, TypeOK, DocTypeOK
  <2>4. V # {} => Known(d, h)'
    BY <1>3, <2>3 DEF Known
  <2>5. w = {h} => Known(d, h)'
    BY <2>3 DEF Known
  <2>6. \A x \in Doc : \A g : Known(x, g) => Known(x, g)'
    BY <2>2 DEF Known
  <2> QED BY <2>1, <2>4, <2>5, <2>6
<1>9. Apart(d)
  <2>1. \A x \in Doc \ {d} : at'[x] = at[x] /\ seen'[x] = seen[x]
    BY <1>2 DEF IInv, TypeOK, JobTypeOK
  <2> QED BY <1>2, <1>5, <1>8, <2>1 DEF Apart
<1>10. Relied'
  <2> SUFFICES ASSUME "upsertUnknown" \notin Faults,
                      NEW y \in Doc, NEW x \in Doc, NEW g \in Hash, <<g, x>> \in relies'[y]
               PROVE  tenant'[x] = tenant'[y] /\ \E p \in PointsOf(x)' : p.hash = g
    BY DEF Relied
  <2> SUFFICES tenant[x] = tenant[y] /\ \E p \in PointsOf(x) : p.hash = g
    BY <1>2, <1>8
  <2>1. CASE <<g, x>> \in relies[y]
    BY <2>1 DEF IInv, Relied
  <2>2. CASE y = d /\ <<g, x>> \in V
    <3>1. PICK z \in Doc : /\ <<g, x>> = <<h, z>> /\ tenant[z] = tenant[d]
                           /\ \E p \in PointsOf(z) : p.hash = h
      BY <1>3, <2>2
    <3>2. g = h /\ x = z
      BY <3>1
    <3> QED BY <2>2, <3>1, <3>2
  <2> QED BY <1>2, <2>1, <2>2 DEF IInv, TypeOK, DocTypeOK
<1>11. DocInv(d)'
  <2>1. /\ pc'[d] = pc[d] /\ at'[d] = at[d] + 1 /\ seen'[d] = seen[d] \cup s
        /\ at[d] \in Nat /\ Kind(d)' = Kind(d)
        /\ \A l : Elements(d, l)' = Elements(d, l) /\ \A g : Exempt(d, g)' = Exempt(d, g)
    <3>1. /\ Kind(d)' = Kind(d)
          /\ \A l : Elements(d, l)' = Elements(d, l) /\ \A g : Exempt(d, g)' = Exempt(d, g)
      BY <1>2, SameShape
    <3>2. /\ pc'[d] = pc[d] /\ at'[d] = at[d] + 1 /\ seen'[d] = seen[d] \cup s
          /\ at[d] \in Nat
      BY <1>1, <1>2 DEF IInv, TypeOK, JobTypeOK
    <3> QED BY <3>1, <3>2
  <2>2. DocInv(d)
    BY DEF IInv
  <2>3. Rested(d)' /\ Placed(d)'
    <3>1. Rested(d)'
      BY <1>1, <2>1 DEF Rested, Lists
    <3>2. Placed(d)'
      BY <1>1, <1>2, <1>8, <2>1, <2>2 DEF DocInv, Placed, Below, Lists
    <3> QED BY <3>1, <3>2
  <2>4. Once(d)'
    <3> SUFFICES ASSUME Kind(d) = "pdf" PROVE Once(d)'
      BY <2>1 DEF Once
    <3>1. CASE results' = results
      BY <1>8, <2>1, <2>2, <3>1 DEF DocInv, Once
    <3>2. CASE results' = [results EXCEPT ![d] = Append(@, h)] /\ s = {h} /\ h \notin seen[d]
      <4>1. /\ results[d] \in Seq(Hash) /\ results'[d] = Append(results[d], h)
            /\ Len(results'[d]) = Len(results[d]) + 1 /\ results'[d][Len(results[d]) + 1] = h
        BY <1>1, <1>5, <3>2 DEF IInv, TypeOK, JobTypeOK
      <4>2. \A i \in 1 .. Len(results'[d]) : i \in 1 .. Len(results[d]) \/ i = Len(results[d]) + 1
        BY <1>5, <4>1
      <4>3. \A i \in 1 .. Len(results'[d]) : results'[d][i] \in seen'[d]
        BY <1>5, <2>1, <2>2, <3>2, <4>1, <4>2 DEF DocInv, Once
      <4>4. \A i, k \in 1 .. Len(results'[d]) : results'[d][i] = results'[d][k] => i = k
        BY <1>5, <2>2, <3>2, <4>1, <4>2 DEF DocInv, Once
      <4> QED BY <1>8, <2>1, <2>2, <4>3, <4>4 DEF DocInv, Once
    <3> QED BY <1>2, <2>1, <3>1, <3>2
  <2>5. \A g : Captioned(d, g) => Captioned(d, g)'
    BY <1>5 DEF Captioned
  <2>6. (Exempt(d, h) /\ s = {}) \/ h \in seen[d] \/ Known(d, h)' \/ Captioned(d, h)'
    <3>1. CASE results' = [results EXCEPT ![d] = Append(@, h)]
      <4>1. results'[d] = Append(results[d], h) /\ results[d] \in Seq(Hash)
        BY <3>1 DEF IInv, TypeOK, JobTypeOK
      <4>2. Len(results'[d]) \in 1 .. Len(results'[d]) /\ results'[d][Len(results'[d])] = h
        BY <1>1, <4>1
      <4> QED BY <4>2 DEF Captioned
    <3> QED BY <1>2, <1>8, <3>1
  <2>7. Handled(d)'
    <3>1. \A g \in seen'[d] : Known(d, g)' \/ Captioned(d, g)'
      BY <1>2, <1>8, <2>1, <2>2, <2>5, <2>6 DEF DocInv, Handled
    <3>2. ASSUME NEW i \in 1 .. Len(E), i < at[d] + 1, NEW g, g = E[i]
          PROVE  Exempt(d, g) \/ Known(d, g)' \/ Captioned(d, g)'
      <4>1. CASE i = at[d]
        <5>1. g = h /\ (h \in seen[d] => h \in seen'[d])
          BY <1>1, <2>1, <3>2, <4>1
        <5>2. Exempt(d, h) \/ Known(d, h)' \/ Captioned(d, h)'
          BY <2>6, <3>1, <5>1
        <5> QED BY <5>1, <5>2
      <4>2. CASE i < at[d]
        <5>1. Exempt(d, g) \/ Known(d, g) \/ Captioned(d, g)
          BY <1>1, <2>2, <3>2, <4>2 DEF DocInv, Handled, E
        <5> QED BY <1>8, <2>5, <5>1
      <4> QED BY <1>1, <3>2, <4>1, <4>2
    <3> QED BY <2>1, <3>1, <3>2 DEF Handled, E
  <2>8. Covered(d)'
    BY <1>1, <1>2, <1>8, <2>1, <2>2 DEF DocInv, Covered, Ended, Settled
  <2>9. Tallied(d)'
    BY <1>1, <1>2, <1>8, <2>1, <2>2 DEF DocInv, Tallied, Settled
  <2> QED BY <2>3, <2>4, <2>7, <2>8, <2>9 DEF DocInv
<1> QED BY <1>7, <1>9, <1>10, <1>11, OneDoc

\* What is left alone, in the form Passing asks for.
LEMMA Alone ==
  ASSUME TypeOK, NEW d \in Doc
  PROVE  /\ seen' = seen => seen' = [seen EXCEPT ![d] = @ \cup {}]
         /\ lost' = lost => lost' = [lost EXCEPT ![d] = @ \cup {}]
         /\ relies' = relies => relies' = [relies EXCEPT ![d] = @ \cup {}]
<1>1. seen' = seen => seen' = [seen EXCEPT ![d] = @ \cup {}]
  BY DEF TypeOK, JobTypeOK
<1>2. lost' = lost => lost' = [lost EXCEPT ![d] = @ \cup {}]
  BY DEF TypeOK, DocTypeOK
<1>3. relies' = relies => relies' = [relies EXCEPT ![d] = @ \cup {}]
  BY DEF TypeOK, DocTypeOK
<1> QED BY <1>1, <1>2, <1>3

\* What is noted as seen: the element, in a PDF.
LEMMA Noted ==
  ASSUME TypeOK, NEW d \in Doc, NEW h, Notes(d, h)
  PROVE  \E s \in SUBSET {h} : /\ seen' = [seen EXCEPT ![d] = @ \cup s]
                               /\ Kind(d) = "pdf" => s = {h}
<1>1. CASE Kind(d) = "pdf"
  BY <1>1 DEF Notes
<1>2. CASE Kind(d) # "pdf"
  <2>1. seen' = seen
    BY <1>2 DEF Notes, TypeOK, JobTypeOK
  <2>2. seen' = [seen EXCEPT ![d] = @ \cup {}] /\ {} \in SUBSET {h}
    BY <2>1, Alone
  <2> QED BY <1>2, <2>2
<1> QED BY <1>1, <1>2

LEMMA SkipStep == ASSUME IInv, NEW d \in Doc, Skip(d) PROVE IInv'
<1> PICK h : h = Element(d)
  OBVIOUS
<1>1. /\ Examining(d) /\ Passes(d) /\ results' = results
      /\ seen' = seen /\ lost' = lost /\ relies' = relies
      /\ Exempt(d, h) \/ h \in seen[d]
  BY DEF Skip, SeenBefore, history, Exempt
<1>3. /\ seen' = [seen EXCEPT ![d] = @ \cup {}]
      /\ lost' = [lost EXCEPT ![d] = @ \cup {}]
      /\ relies' = [relies EXCEPT ![d] = @ \cup {}]
  BY <1>1, Alone DEF IInv
<1>4. Passed(d, h, {}, {}, {})
  BY <1>1, <1>3 DEF Passed
<1> QED BY <1>1, <1>4, Passing

LEMMA DownloadFailsStep == ASSUME IInv, NEW d \in Doc, DownloadFails(d) PROVE IInv'
<1> PICK h : h = Element(d)
  OBVIOUS
<1>1. /\ Examining(d) /\ Passes(d) /\ results' = results
      /\ seen' = seen /\ relies' = relies
      /\ lost' = [lost EXCEPT ![d] = @ \cup {h}]
  BY DEF DownloadFails
<1>3. /\ seen' = [seen EXCEPT ![d] = @ \cup {}]
      /\ relies' = [relies EXCEPT ![d] = @ \cup {}]
  BY <1>1, Alone DEF IInv
<1>4. Passed(d, h, {}, {h}, {})
  BY <1>1, <1>3 DEF Passed
<1> QED BY <1>1, <1>4, Passing

LEMMA NoPayloadStep == ASSUME IInv, NEW d \in Doc, NoPayload(d) PROVE IInv'
<1> PICK h : h = Element(d)
  OBVIOUS
<1>1. /\ Examining(d) /\ Passes(d) /\ results' = results
      /\ seen' = seen /\ relies' = relies
      /\ lost' = [lost EXCEPT ![d] = @ \cup {h}]
  BY DEF NoPayload
<1>2. /\ seen' = [seen EXCEPT ![d] = @ \cup {}]
      /\ relies' = [relies EXCEPT ![d] = @ \cup {}]
  BY <1>1, Alone DEF IInv
<1>3. Passed(d, h, {}, {h}, {})
  BY <1>1, <1>2 DEF Passed
<1> QED BY <1>1, <1>3, Passing

LEMMA OvercountedStep == ASSUME IInv, NEW d \in Doc, Overcounted(d) PROVE IInv'
<1> PICK h : h = Element(d)
  OBVIOUS
<1>1. /\ Examining(d) /\ Passes(d) /\ Notes(d, h) /\ results' = results
      /\ relies' = relies
      /\ lost' = [lost EXCEPT ![d] = @ \cup {h}]
  BY DEF Overcounted, Fresh
<1>2. PICK s \in SUBSET {h} : seen' = [seen EXCEPT ![d] = @ \cup s] /\ (Kind(d) = "pdf" => s = {h})
  BY <1>1, Noted DEF IInv
<1>3. /\ relies' = [relies EXCEPT ![d] = @ \cup {}]
  BY <1>1, Alone DEF IInv
<1>4. Passed(d, h, s, {h}, {})
  BY <1>1, <1>2, <1>3 DEF Passed
<1> QED BY <1>1, <1>4, Passing

LEMMA AlreadyIndexedStep == ASSUME IInv, NEW d \in Doc, AlreadyIndexed(d) PROVE IInv'
<1> PICK h : h = Element(d)
  OBVIOUS
<1>1. /\ Examining(d) /\ Passes(d) /\ results' = results /\ Notes(d, h) /\ Holders(d, h) # {}
      /\ lost' = lost
      /\ relies' = [relies EXCEPT ![d] = @ \cup {<<h, x>> : x \in Holders(d, h)}]
  BY DEF AlreadyIndexed, Fresh
<1>2. PICK s \in SUBSET {h} : seen' = [seen EXCEPT ![d] = @ \cup s] /\ (Kind(d) = "pdf" => s = {h})
  BY <1>1, Noted DEF IInv
<1>3. /\ lost' = [lost EXCEPT ![d] = @ \cup {}]
  BY <1>1, Alone DEF IInv
<1>4. Passed(d, h, s, {}, {<<h, x>> : x \in Holders(d, h)})
  <2>1. {<<h, x>> : x \in Holders(d, h)} # {} /\ {} \in SUBSET {h}
    BY <1>1
  <2> QED BY <1>1, <1>2, <1>3, <2>1 DEF Passed
<1> QED BY <1>1, <1>4, Passing

LEMMA CaptionStep == ASSUME IInv, NEW d \in Doc, Caption(d) PROVE IInv'
<1> PICK h : h = Element(d)
  OBVIOUS
<1>1. /\ Examining(d) /\ Passes(d) /\ Notes(d, h) /\ lost' = lost /\ relies' = relies
      /\ results' = [results EXCEPT ![d] = Append(@, h)]
      /\ Kind(d) = "pdf" => h \notin seen[d]
  BY DEF Caption, NotIndexed, Fresh, SeenBefore, history
<1>2. PICK s \in SUBSET {h} : seen' = [seen EXCEPT ![d] = @ \cup s] /\ (Kind(d) = "pdf" => s = {h})
  BY <1>1, Noted DEF IInv
<1>3. /\ lost' = [lost EXCEPT ![d] = @ \cup {}]
      /\ relies' = [relies EXCEPT ![d] = @ \cup {}]
  BY <1>1, Alone DEF IInv
<1>4. Passed(d, h, s, {}, {})
  BY <1>1, <1>2, <1>3 DEF Passed
<1> QED BY <1>1, <1>4, Passing

LEMMA CaptionFailsStep == ASSUME IInv, NEW d \in Doc, CaptionFails(d) PROVE IInv'
<1> PICK h : h = Element(d)
  OBVIOUS
<1>1. /\ Examining(d) /\ Passes(d) /\ Notes(d, h) /\ results' = results /\ relies' = relies
      /\ lost' = [lost EXCEPT ![d] = @ \cup {h}]
  BY DEF CaptionFails, NotIndexed, Fresh
<1>2. PICK s \in SUBSET {h} : seen' = [seen EXCEPT ![d] = @ \cup s] /\ (Kind(d) = "pdf" => s = {h})
  BY <1>1, Noted DEF IInv
<1>3. relies' = [relies EXCEPT ![d] = @ \cup {}]
  BY <1>1, Alone DEF IInv
<1>4. Passed(d, h, s, {h}, {})
  BY <1>1, <1>2, <1>3 DEF Passed
<1> QED BY <1>1, <1>4, Passing

-----------------------------------------------------------------------------
(* The points of a document are removed.                                    *)

LEMMA Removal ==
  ASSUME IInv, NEW d \in Doc, Removes(d), tenant' = tenant
  PROVE  /\ PointsOf(d)' = {} /\ \A x \in Doc \ {d} : PointsOf(x)' = PointsOf(x)
         /\ \A x \in Doc \ {d} : \A h : Known(x, h) => Known(x, h)'
         /\ Relied' /\ PointTypeOK'
         /\ relies' \in [Doc -> SUBSET (Hash \X Doc)] /\ lost' \in [Doc -> SUBSET Hash]
<1>1. PointsOf(d)' = {} /\ \A x \in Doc \ {d} : PointsOf(x)' = PointsOf(x)
  BY DEF Removes, PointsOf
<1>2. relies \in [Doc -> SUBSET (Hash \X Doc)] /\ lost \in [Doc -> SUBSET Hash] /\ PointTypeOK
  BY DEF IInv, TypeOK, DocTypeOK
<1>3. PointTypeOK'
  BY <1>2 DEF Removes, PointTypeOK
<1>4. relies' \in [Doc -> SUBSET (Hash \X Doc)]
  BY <1>2 DEF Removes
<1>5. ASSUME NEW x \in Doc, NEW r \in relies[x] PROVE r[1] \in Hash /\ r[2] \in Doc /\ r = <<r[1], r[2]>>
  BY <1>2
<1>6. lost' \in [Doc -> SUBSET Hash]
  <2>1. \A x \in Doc : {r[1] : r \in {s \in relies[x] : s[2] = d}} \in SUBSET Hash
    BY <1>5
  <2> QED BY <1>2, <2>1 DEF Removes
<1>7. ASSUME NEW x \in Doc \ {d}, NEW h, Known(x, h) PROVE Known(x, h)'
  <2>1. relies'[x] = {r \in relies[x] : r[2] # d}
        /\ lost'[x] = lost[x] \cup {r[1] : r \in {s \in relies[x] : s[2] = d}}
    BY DEF Removes
  <2>2. CASE h \in lost[x]
    BY <2>1, <2>2 DEF Known
  <2>3. CASE \E y \in Doc : <<h, y>> \in relies[x]
    <3>1. PICK y \in Doc : <<h, y>> \in relies[x]
      BY <2>3
    <3>2. CASE y = d
      <4>1. <<h, y>>[1] \in lost'[x]
        BY <2>1, <3>1, <3>2
      <4> QED BY <4>1 DEF Known
    <3>3. CASE y # d
      BY <2>1, <3>1, <3>3 DEF Known
    <3> QED BY <3>2, <3>3
  <2> QED BY <1>7, <2>2, <2>3 DEF Known
<1>8. Relied'
  <2> SUFFICES ASSUME "upsertUnknown" \notin Faults,
                      NEW y \in Doc, NEW x \in Doc, NEW h \in Hash, <<h, x>> \in relies'[y]
               PROVE  tenant'[x] = tenant'[y] /\ \E p \in PointsOf(x)' : p.hash = h
    BY DEF Relied
  <2>1. x # d /\ <<h, x>> \in relies[y]
    BY DEF Removes
  <2> QED BY <1>1, <2>1 DEF IInv, Relied
<1> QED BY <1>1, <1>3, <1>4, <1>6, <1>7, <1>8

LEMMA StartStep == ASSUME IInv, NEW d \in Doc, Start(d) PROVE IInv'
<1>1. /\ pc[d] = "idle" /\ pc' = [pc EXCEPT ![d] = "clearing"] /\ ingested[d] < Ingestions
      /\ ingested' = [ingested EXCEPT ![d] = @ + 1] /\ status' = [status EXCEPT ![d] = "PROCESSING"]
      /\ UNCHANGED <<tenant, shape, count, points, at, seen, results, offset, indexed, relies, lost>>
  BY DEF Start, Moves, history
<1>2. TypeOK'
  <2>1. ingested' \in [Doc -> 0 .. Ingestions] /\ 0 \in 0 .. 2 * Cap
    BY <1>1, IngestionsAssumption, CapAssumption DEF IInv, TypeOK, DocTypeOK
  <2> QED BY <1>1, <2>1 DEF IInv, TypeOK, DocTypeOK, PointTypeOK, JobTypeOK
<1>3. (\A x \in Doc : PointsOf(x)' = PointsOf(x)) /\ \A x, h : Known(x, h)' = Known(x, h)
  BY <1>1 DEF PointsOf, Known
<1>4. Apart(d) /\ Relied'
  <2>1. Apart(d)
    BY <1>1, <1>3 DEF Apart, IInv, TypeOK, DocTypeOK, JobTypeOK
  <2> QED BY <1>1, <1>3, <2>1 DEF IInv, Relied
<1>5. DocInv(d)'
  <2>1. /\ pc'[d] = "clearing" /\ status'[d] = "PROCESSING"
        /\ ingested'[d] = ingested[d] + 1 /\ ingested[d] \in Nat /\ DocInv(d)
        /\ results'[d] = << >> /\ seen'[d] = {} /\ Kind(d)' = Kind(d)
    BY <1>1, SameShape, IngestionsAssumption
    DEF IInv, TypeOK, DocTypeOK, JobTypeOK, DocInv, Rested
  <2>2. Rested(d)' /\ Placed(d)'
    BY <1>1, <2>1 DEF DocInv, Rested, Placed, Below
  <2>3. Once(d)'
    BY <1>3, <2>1 DEF DocInv, Once
  <2>4. Handled(d)' /\ Covered(d)'
    BY <2>1 DEF Handled, Covered, Ended, Settled, Lists
  <2>5. Tallied(d)'
    BY <1>1, <1>3, <2>1 DEF DocInv, Tallied, Settled, Lists
  <2> QED BY <2>2, <2>3, <2>4, <2>5 DEF DocInv
<1> QED BY <1>2, <1>4, <1>5, OneDoc

LEMMA ClearStep == ASSUME IInv, NEW d \in Doc, Clear(d) PROVE IInv'
<1>1. /\ pc[d] = "clearing" /\ pc' = [pc EXCEPT ![d] = "figures"] /\ Removes(d)
      /\ UNCHANGED <<tenant, shape, status, count, ingested, at, seen, results, offset, indexed>>
  BY DEF Clear, Moves, docVars
<1>2. TypeOK' /\ Relied'
  BY <1>1, Removal DEF IInv, TypeOK, DocTypeOK, JobTypeOK, Lists
<1>3. Apart(d)
  BY <1>1, Removal DEF Apart, IInv, TypeOK, JobTypeOK
<1>4. DocInv(d)'
  <2>1. /\ pc'[d] = "figures" /\ PointsOf(d)' = {} /\ DocInv(d) /\ at'[d] = 1 /\ seen'[d] = {}
        /\ results'[d] = << >> /\ offset'[d] = 0 /\ indexed'[d] = 0
        /\ Kind(d)' = Kind(d)
    BY <1>1, Removal, SameShape DEF IInv, TypeOK, JobTypeOK, DocInv, Rested
  <2>2. Rested(d)' /\ Placed(d)' /\ Once(d)'
    BY <2>1 DEF Rested, Placed, Below, Once
  <2>3. Handled(d)'
    <3>1. pc'[d] \in Lists /\ shape' = shape /\ DocTypeOK'
      BY <1>1, <1>2, <2>1 DEF Lists, TypeOK
    <3>3. \A i \in 1 .. Len(Elements(d, pc[d])') : ~(i < at'[d])
      BY <2>1
    <3> QED BY <2>1 DEF Handled
  <2>4. Covered(d)'
    BY <2>1 DEF Covered, Ended, Settled
  <2>5. Tallied(d)'
    BY <1>1, <2>1, FS_EmptySet DEF DocInv, Tallied, Settled, Lists
  <2> QED BY <2>2, <2>3, <2>4, <2>5 DEF DocInv
<1> QED BY <1>2, <1>3, <1>4, OneDoc

LEMMA DeleteStep == ASSUME IInv, NEW d \in Doc, Delete(d) PROVE IInv'
<1>1. /\ pc[d] = "idle" /\ status' = [status EXCEPT ![d] = "DELETED"] /\ Removes(d)
      /\ UNCHANGED <<tenant, shape, count, ingested, pc, at, seen, results, offset, indexed>>
  BY DEF Delete, jobVars
<1>2. TypeOK' /\ Relied'
  BY <1>1, Removal DEF IInv, TypeOK, DocTypeOK, JobTypeOK
<1>3. Apart(d)
  BY <1>1, Removal DEF Apart, IInv, TypeOK, DocTypeOK
<1>4. DocInv(d)'
  <2>1. /\ pc'[d] = "idle" /\ PointsOf(d)' = {} /\ DocInv(d) /\ status'[d] = "DELETED" /\ at'[d] = 1
        /\ seen'[d] = {} /\ results'[d] = << >> /\ offset'[d] = 0 /\ indexed'[d] = 0
        /\ Kind(d)' = Kind(d)
    BY <1>1, Removal, SameShape DEF IInv, TypeOK, DocTypeOK, DocInv, Rested
  <2>2. Rested(d)' /\ Placed(d)' /\ Once(d)'
    BY <2>1 DEF Rested, Placed, Below, Once
  <2>3. Handled(d)' /\ Covered(d)'
    BY <2>1 DEF Handled, Covered, Ended, Settled, Lists
  <2>4. Tallied(d)'
    BY <1>1, <2>1, FS_EmptySet DEF DocInv, Tallied, Settled, Lists
  <2> QED BY <2>2, <2>3, <2>4 DEF DocInv
<1> QED BY <1>2, <1>3, <1>4, OneDoc

-----------------------------------------------------------------------------
(* The end of a list.                                                       *)

\* The points of a document that those of its list do not replace.
Spared(d) == {p \in PointsOf(d) : \A q \in Upserted(d) : p.index # q.index}

\* The points of a list are as many as its captions, lie behind the points the
\* document has below its offset, and replace none of these.
LEMMA NewPoints ==
  ASSUME IInv, NEW d \in Doc, AtEnd(d)
  PROVE  /\ Upserted(d) \subseteq [doc : {d}, index : Indexes, hash : Hash, from : {pc[d]}]
         /\ pc[d] = "figures" => \A p \in Upserted(d) : p.index < Len(results[d])
         /\ Overwrite(Upserted(d)) = (points \ PointsOf(d)) \cup Spared(d) \cup Upserted(d)
         /\ IsFiniteSet(Upserted(d)) /\ Cardinality(Upserted(d)) = Len(results[d])
         /\ Spared(d) \cap Upserted(d) = {} /\ Spared(d) \in SUBSET PointsOf(d)
         /\ Below(d) => Spared(d) = PointsOf(d) /\ Overwrite(Upserted(d)) = points \cup Upserted(d)
         /\ Len(results[d]) \in 0 .. Cap
<1> DEFINE n == Len(results[d])
           e(i) == [doc |-> d, index |-> IndexFrom(d) + i - 1, hash |-> results[d][i], from |-> pc[d]]
           f == [i \in 1 .. n |-> e(i)]
<1>1. /\ pc[d] \in {"figures", "tables"} /\ results[d] \in Seq(Hash) /\ n \in Nat /\ n < at[d]
      /\ at[d] \in 1 .. Cap + 1 /\ Cap \in Nat /\ offset[d] \in 0 .. Cap /\ Placed(d)
      /\ points \subseteq [doc : Doc, index : Indexes, hash : Hash, from : Lists]
  BY CapAssumption DEF AtEnd, IInv, TypeOK, PointTypeOK, JobTypeOK, DocInv
<1>2. /\ IndexFrom(d) \in 0 .. Cap /\ n \in 0 .. Cap
      /\ pc[d] = "figures" => IndexFrom(d) = 0
      /\ pc[d] = "tables" => IndexFrom(d) = offset[d]
  BY <1>1 DEF IndexFrom
<1>3. Upserted(d) = {e(i) : i \in 1 .. n}
  BY DEF Upserted
<1>4. \A i \in 1 .. n : /\ e(i).index = IndexFrom(d) + i - 1 /\ e(i).index \in Indexes
                        /\ IndexFrom(d) <= e(i).index /\ e(i).index < IndexFrom(d) + n
                        /\ e(i).doc = d /\ e(i).hash \in Hash /\ e(i).from = pc[d]
                        /\ e(i) \in [doc : {d}, index : Indexes, hash : Hash, from : {pc[d]}]
  BY <1>1, <1>2 DEF Indexes
<1> HIDE DEF e
<1>5. Upserted(d) \subseteq [doc : {d}, index : Indexes, hash : Hash, from : {pc[d]}]
  BY <1>3, <1>4
<1>6. pc[d] = "figures" => \A p \in Upserted(d) : p.index < n
  BY <1>1, <1>2, <1>3, <1>4
<1>7. ASSUME Below(d), NEW p \in PointsOf(d), NEW q \in Upserted(d) PROVE p.index # q.index
  <2>1. PICK i \in 1 .. n : q = e(i)
    BY <1>3
  <2>2. pc[d] = "tables" /\ p.index < offset[d] /\ p.index \in Nat
    BY <1>1, <1>7 DEF Placed, Below, PointsOf, Indexes
  <2> QED BY <1>1, <1>2, <1>4, <2>1, <2>2
<1>8. Below(d) => Spared(d) = PointsOf(d)
  BY <1>7 DEF Spared
<1>9. Overwrite(Upserted(d)) = (points \ PointsOf(d)) \cup Spared(d) \cup Upserted(d)
  <2>1. \A q \in Upserted(d) : q.doc = d
    BY <1>3, <1>4
  <2> QED BY <2>1 DEF Overwrite, Spared, PointsOf
<1>10. /\ Spared(d) \cap Upserted(d) = {} /\ Spared(d) \in SUBSET PointsOf(d)
       /\ Below(d) => Overwrite(Upserted(d)) = points \cup Upserted(d)
  <2>1. PointsOf(d) \in SUBSET points
    BY DEF PointsOf
  <2>2. Spared(d) \cap Upserted(d) = {} /\ Spared(d) \in SUBSET PointsOf(d)
    BY DEF Spared
  <2> QED BY <1>8, <1>9, <2>1, <2>2
<1>11. IsFiniteSet(Upserted(d)) /\ Cardinality(Upserted(d)) = n
  <2>1. f \in Bijection(1 .. n, Upserted(d))
    <3>1. f \in [1 .. n -> Upserted(d)] /\ \A q \in Upserted(d) : \E i \in 1 .. n : f[i] = q
      BY <1>3
    <3>2. \A i, k \in 1 .. n : f[i] = f[k] => i = k
      <4> SUFFICES ASSUME NEW i \in 1 .. n, NEW k \in 1 .. n, f[i] = f[k] PROVE i = k
        OBVIOUS
      <4>1. e(i) = e(k)
        OBVIOUS
      <4>2. e(i).index = e(k).index
        BY <4>1
      <4>3. IndexFrom(d) + i - 1 = IndexFrom(d) + k - 1 /\ IndexFrom(d) \in Int
        BY <1>2, <1>4, <4>2
      <4> QED BY <4>3
    <3> HIDE DEF f
    <3> QED BY <3>1, <3>2 DEF Bijection, Injection, IsInjective, Surjection
  <2> HIDE DEF f, n
  <2>2. IsFiniteSet(1 .. n) /\ Cardinality(1 .. n) = n
    <3>1. n \in Nat
      BY <1>1
    <3> QED BY <3>1, FS_Interval
  <2>3. ExistsBijection(1 .. n, Upserted(d))
    BY <2>1 DEF ExistsBijection
  <2> QED BY <2>2, <2>3, FS_Bijection
<1> QED BY <1>2, <1>5, <1>6, <1>8, <1>9, <1>10, <1>11

\* What the end of a list is, whether its points N or none of them came in, and
\* of the points there were K remain: every caption of it is accounted for, what
\* is counted is there, and the offset is behind it.
LEMMA ListEnds ==
  ASSUME IInv, NEW d \in Doc, AtEnd(d), NextList(d), TypeOK', Relied', Apart(d),
         NEW to, to \in {AfterList(d), "failing"}, pc' = [pc EXCEPT ![d] = to],
         NEW N, N = {} \/ N = Upserted(d), NEW K \in SUBSET PointsOf(d), K \cap N = {},
         points' = (points \ PointsOf(d)) \cup K \cup N, Below(d) \/ N = {} => K = PointsOf(d),
         \A h : Known(d, h) => Known(d, h)',
         \A i \in 1 .. Len(results[d]) : \A h : h = results[d][i] => Known(d, h)',
         indexed'[d] = indexed[d] \/ indexed'[d] = indexed[d] + Cardinality(N),
         pc[d] = "figures" => \/ \A p \in N : p.index < offset'[d]
                              \/ indexed'[d] = indexed[d] /\ "upsertUnknown" \in Faults,
         pc[d] = "tables" => offset'[d] = offset[d]
  PROVE  IInv'
<1>1. /\ pc[d] \in Lists /\ at[d] > Len(Elements(d, pc[d])) /\ Len(Elements(d, pc[d])) \in 0 .. Cap
      /\ Elements(d, pc[d]) \in Seq(Hash) /\ at[d] \in Nat /\ Cap \in Nat \ {0}
  <2>1. pc[d] \in Lists /\ at[d] > Len(Elements(d, pc[d])) /\ at[d] \in Nat
    BY DEF AtEnd, Lists, IInv, TypeOK, JobTypeOK
  <2> QED BY <2>1, ElementsType, CapAssumption DEF IInv, TypeOK
<1>2. /\ at'[d] = 1 /\ seen'[d] = {} /\ results'[d] = << >> /\ pc'[d] = to
      /\ UNCHANGED <<tenant, shape, status, count, ingested>>
  BY DEF NextList, docVars, IInv, TypeOK, JobTypeOK
<1>3. to \in {"tables", "counting", "failing"} /\ (to = "tables" => Kind(d) = "pdf" /\ pc[d] = "figures")
      /\ (to = "counting" /\ pc[d] = "figures" => Kind(d) # "pdf")
  BY <1>1 DEF AfterList, Lists
<1>4. DocInv(d)
  BY DEF IInv
<1>5. /\ N \subseteq [doc : {d}, index : Indexes, hash : Hash, from : {pc[d]}]
      /\ IsFiniteSet(N) /\ Cardinality(N) \in 0 .. Cap
  <2>1. CASE N = {}
    BY <1>1, <2>1, FS_EmptySet
  <2>2. CASE N = Upserted(d)
    BY <2>2, NewPoints
  <2> QED BY <2>1, <2>2
<1>6. PointsOf(d)' = K \cup N
  <2>1. \A p \in N : p.doc = d
    BY <1>5
  <2> QED BY <2>1 DEF PointsOf
<1>7. /\ IsFiniteSet(PointsOf(d)') /\ Cardinality(PointsOf(d)') \in Nat
      /\ Cardinality(N) <= Cardinality(PointsOf(d)')
      /\ K = PointsOf(d) => Cardinality(PointsOf(d)') = Cardinality(PointsOf(d)) + Cardinality(N)
      /\ Cardinality(PointsOf(d)) \in Nat
  <2>1. IsFiniteSet(PointsOf(d))
    BY <1>4 DEF DocInv, Tallied
  <2>2. IsFiniteSet(K)
    BY <2>1, FS_Subset
  <2>3. Cardinality(K) \in Nat /\ Cardinality(N) \in Nat /\ Cardinality(PointsOf(d)) \in Nat
    BY <1>5, <2>1, <2>2, FS_CardinalityType
  <2>4. /\ IsFiniteSet(K \cup N)
        /\ Cardinality(K \cup N) = Cardinality(K) + Cardinality(N) - Cardinality(K \cap N)
    BY <1>5, <2>2, FS_Union
  <2>5. Cardinality(K \cap N) = 0
    BY FS_EmptySet
  <2> QED BY <1>6, <2>3, <2>4, <2>5
<1>8. /\ Kind(d)' = Kind(d) /\ \A l : Elements(d, l)' = Elements(d, l)
      /\ \A h : Exempt(d, h)' = Exempt(d, h)
  BY <1>2, SameShape
<1>9. DocInv(d)'
  <2>1. Rested(d)'
    BY <1>2, <1>3 DEF Rested
  <2>2. Placed(d)'
    <3>1. CASE to # "tables"
      BY <1>2, <1>3, <3>1 DEF Placed, Below
    <3>2. CASE to = "tables"
      <4>1. pc[d] = "figures" /\ Kind(d)' = "pdf" /\ PointsOf(d) = {} /\ indexed[d] = 0
        BY <1>3, <1>4, <1>8, <3>2 DEF DocInv, Placed
      <4>2. indexed'[d] <= Cap
        BY <1>1, <1>5, <4>1
      <4>3. PointsOf(d)' = N
        BY <1>6, <4>1
      <4>4. \A p \in PointsOf(d)' : p.from = "figures"
        BY <1>5, <4>1, <4>3
      <4>5. Below(d)' \/ (indexed'[d] = 0 /\ "upsertUnknown" \in Faults)
        BY <4>1, <4>3 DEF Below
      <4> QED BY <1>2, <3>2, <4>1, <4>2, <4>4, <4>5 DEF Placed
    <3> QED BY <3>1, <3>2
  <2>3. Once(d)'
    <3> SUFFICES ASSUME Kind(d) = "pdf"
                 PROVE  \A p, q \in PointsOf(d)' : p.hash = q.hash /\ p.from = q.from => p = q
      BY <1>2, <1>8 DEF Once
    <3>1. \A p \in PointsOf(d), q \in N : p.from # q.from
      BY <1>1, <1>4, <1>5 DEF DocInv, Placed, Below, Lists
    <3>2. \A p, q \in N : p.hash = q.hash => p = q
      BY <1>4, <1>5 DEF DocInv, Once, Upserted
    <3>3. \A p, q \in K : p.hash = q.hash /\ p.from = q.from => p = q
      BY <1>4 DEF DocInv, Once
    <3> QED BY <1>6, <3>1, <3>2, <3>3
  <2>4. Handled(d)'
    <3>1. pc'[d] \in Lists => \A i \in 1 .. Len(Elements(d, pc[d])') : ~(i < at'[d])
      BY <1>2
    <3> QED BY <1>2 DEF Handled
  <2>5. Covered(d)'
    <3> SUFFICES ASSUME NEW l \in Lists, Ended(d, l)', NEW i \in 1 .. Len(Elements(d, l)),
                        NEW h, h = Elements(d, l)[i]
                 PROVE  Exempt(d, h) \/ Known(d, h)'
      BY <1>8 DEF Covered
    <3>1. CASE l = pc[d]
      <4>1. i < at[d]
        BY <1>1, <3>1
      <4>2. Exempt(d, h) \/ Known(d, h) \/ Captioned(d, h)
        BY <1>1, <1>4, <3>1, <4>1 DEF DocInv, Handled
      <4> QED BY <4>2 DEF Captioned
    <3>2. CASE l # pc[d] /\ pc[d] = "tables"
      <4>1. Ended(d, l)
        BY <3>2 DEF Ended, Lists
      <4> QED BY <1>4, <4>1 DEF DocInv, Covered
    <3>3. CASE l # pc[d] /\ pc[d] = "figures"
      <4>1. l = "tables" /\ to = "counting"
        BY <1>2, <1>3, <3>3 DEF Ended, Lists, Settled
      <4>2. Len(Elements(d, l)) = 0
        BY <1>3, <3>3, <4>1, ElementsType DEF IInv, TypeOK
      <4> QED BY <4>2
    <3> QED BY <1>1, <3>1, <3>2, <3>3 DEF Lists
  <2>6. Tallied(d)'
    <3>1. indexed'[d] <= Cardinality(PointsOf(d)')
      <4>1. indexed[d] <= Cardinality(PointsOf(d)) /\ indexed[d] \in Nat
        BY <1>1, <1>4 DEF DocInv, Tallied, IInv, TypeOK, JobTypeOK
      <4>2. CASE K = PointsOf(d)
        BY <1>5, <1>7, <4>1, <4>2
      <4>3. CASE K # PointsOf(d)
        <5>1. indexed[d] = 0
          BY <1>1, <1>4, <4>3 DEF DocInv, Placed, Lists
        <5> QED BY <1>5, <1>7, <5>1
      <4> QED BY <4>2, <4>3
    <3>2. ingested[d] # 0 /\ (ingested[d] = 1 => count[d] = 0)
      BY <1>1, <1>4 DEF DocInv, Tallied, Lists
    <3> QED BY <1>2, <1>3, <1>7, <3>1, <3>2 DEF Tallied, Settled
  <2> QED BY <2>1, <2>2, <2>3, <2>4, <2>5, <2>6 DEF DocInv
<1> QED BY <1>9, OneDoc

LEMMA IndexStep == ASSUME IInv, NEW d \in Doc, Index(d) PROVE IInv'
<1> DEFINE N == Upserted(d)
<1>1. /\ AtEnd(d) /\ pc' = [pc EXCEPT ![d] = AfterList(d)] /\ NextList(d)
      /\ points' = (points \ PointsOf(d)) \cup Spared(d) \cup N /\ lost' = lost
      /\ Spared(d) \in SUBSET PointsOf(d) /\ Spared(d) \cap N = {}
      /\ Below(d) => Spared(d) = PointsOf(d)
      /\ indexed' = [indexed EXCEPT ![d] = @ + Len(results[d])]
      /\ offset' = [offset EXCEPT ![d] = IF pc[d] = "figures" THEN Len(results[d]) ELSE @]
      /\ relies' = [relies EXCEPT ![d] = @ \cup {<<p.hash, d>> : p \in Upserted(d)}]
  BY NewPoints DEF Index, Moves
<1>2. /\ N \subseteq [doc : {d}, index : Indexes, hash : Hash, from : {pc[d]}]
      /\ pc[d] = "figures" => \A p \in N : p.index < Len(results[d])
      /\ Cardinality(N) = Len(results[d]) /\ Len(results[d]) \in 0 .. Cap
      /\ pc[d] \in Lists /\ Cap \in Nat \ {0}
  BY <1>1, NewPoints, CapAssumption DEF AtEnd, Lists
<1>3. /\ UNCHANGED <<tenant, shape, status, count, ingested>>
      /\ at' = [at EXCEPT ![d] = 1] /\ seen' = [seen EXCEPT ![d] = {}]
      /\ results' = [results EXCEPT ![d] = << >>]
  BY <1>1 DEF NextList, docVars
<1>4. {<<p.hash, d>> : p \in N} \in SUBSET (Hash \X Doc)
  BY <1>2
<1> HIDE DEF N
<1>5. /\ relies' \in [Doc -> SUBSET (Hash \X Doc)]
      /\ \A x \in Doc : relies[x] \subseteq relies'[x] /\ (x # d => relies'[x] = relies[x])
      /\ relies'[d] = relies[d] \cup {<<p.hash, d>> : p \in N}
  BY <1>1, <1>4 DEF IInv, TypeOK, DocTypeOK, N
<1>6. TypeOK'
  <2>1. DocTypeOK'
    BY <1>1, <1>3, <1>5 DEF IInv, TypeOK, DocTypeOK
  <2>2. PointTypeOK'
    BY <1>1, <1>2 DEF IInv, TypeOK, PointTypeOK, PointsOf
  <2>3. indexed' \in [Doc -> 0 .. 2 * Cap] /\ offset' \in [Doc -> 0 .. Cap]
    <3>1. indexed[d] + Len(results[d]) \in 0 .. 2 * Cap
      <4>1. indexed[d] <= Cap /\ indexed[d] \in Nat
        BY <1>2 DEF IInv, DocInv, Placed, Below, Lists, TypeOK, JobTypeOK
      <4> QED BY <1>2, <4>1
    <3> QED BY <1>1, <1>2, <3>1 DEF IInv, TypeOK, JobTypeOK
  <2>4. results' \in [Doc -> Seq(Hash)] /\ \A x \in Doc : Len(results'[x]) < at'[x]
    BY <1>3 DEF IInv, TypeOK, JobTypeOK
  <2>5. pc' \in [Doc -> {"idle", "clearing", "counting", "finishing", "failing"} \cup Lists]
        /\ at' \in [Doc -> 1 .. Cap + 1] /\ seen' \in [Doc -> SUBSET Hash]
    BY <1>1, <1>2, <1>3 DEF IInv, TypeOK, JobTypeOK, AfterList, Lists
  <2> QED BY <1>3, <2>1, <2>2, <2>3, <2>4, <2>5 DEF IInv, TypeOK, JobTypeOK
<1>7. /\ PointsOf(d)' = Spared(d) \cup N /\ \A x \in Doc \ {d} : PointsOf(x)' = PointsOf(x)
      /\ \A x \in Doc : \A h : Known(x, h) => Known(x, h)'
  <2>1. PointsOf(d)' = Spared(d) \cup N /\ \A x \in Doc \ {d} : PointsOf(x)' = PointsOf(x)
    <3>1. \A p \in N : p.doc = d
      BY <1>2
    <3> QED BY <1>1, <3>1 DEF PointsOf
  <2> QED BY <1>1, <1>5, <2>1 DEF Known
<1>8. Apart(d)
  BY <1>1, <1>3, <1>7 DEF Apart, IInv, TypeOK, JobTypeOK
<1>9. Relied'
  <2> SUFFICES ASSUME "upsertUnknown" \notin Faults,
                      NEW y \in Doc, NEW x \in Doc, NEW h \in Hash, <<h, x>> \in relies'[y]
               PROVE  tenant'[x] = tenant'[y] /\ \E p \in PointsOf(x)' : p.hash = h
    BY DEF Relied
  <2>1. CASE <<h, x>> \in relies[y]
    <3>1. tenant[x] = tenant[y] /\ \E p \in PointsOf(x) : p.hash = h
      BY <2>1 DEF IInv, Relied
    <3>2. PointsOf(d) \subseteq PointsOf(d)'
      BY <1>1, <1>2, <1>7 DEF IInv, DocInv, Placed, Below, Lists
    <3> QED BY <1>3, <1>7, <3>1, <3>2
  <2>2. CASE y = d /\ \E p \in N : <<h, x>> = <<p.hash, d>>
    BY <1>3, <1>7, <2>2
  <2> QED BY <1>5, <2>1, <2>2
<1>10. \A i \in 1 .. Len(results[d]) : \A h : h = results[d][i] => Known(d, h)'
  <2> SUFFICES ASSUME NEW i \in 1 .. Len(results[d]), NEW h, h = results[d][i] PROVE Known(d, h)'
    OBVIOUS
  <2>1. \E p \in N : p.hash = h
    <3> DEFINE p == [doc |-> d, index |-> IndexFrom(d) + i - 1, hash |-> results[d][i], from |-> pc[d]]
    <3>1. p \in N
      BY DEF N, Upserted
    <3> QED BY <3>1
  <2>2. <<h, d>> \in relies'[d]
    BY <1>5, <2>1
  <2> QED BY <2>2 DEF Known
<1>11. /\ indexed'[d] = indexed[d] + Cardinality(N)
       /\ pc[d] = "figures" => \A p \in N : p.index < offset'[d]
       /\ pc[d] = "tables" => offset'[d] = offset[d]
  BY <1>1, <1>2 DEF IInv, TypeOK, JobTypeOK
<1>12. N = {} \/ N = Upserted(d)
  BY DEF N
<1>13. PICK to : to = AfterList(d)
  OBVIOUS
<1>14. Below(d) \/ N = {} => Spared(d) = PointsOf(d)
  BY <1>1 DEF Spared, N
<1>15. to \in {AfterList(d), "failing"} /\ pc' = [pc EXCEPT ![d] = to]
  BY <1>1, <1>13
<1> QED BY <1>1, <1>6, <1>7, <1>8, <1>9, <1>10, <1>11, <1>12, <1>14, <1>15, ListEnds

LEMMA IndexFailsStep == ASSUME IInv, NEW d \in Doc, IndexFails(d) PROVE IInv'
<1>1. /\ AtEnd(d) /\ NextList(d) /\ UNCHANGED <<offset, relies>>
      /\ points' = points \/ (points' = Overwrite(Upserted(d)) /\ "upsertUnknown" \in Faults)
      /\ indexed' = [indexed EXCEPT ![d] = @ + 0]
      /\ lost' = [lost EXCEPT ![d] = @ \cup {results[d][i] : i \in 1 .. Len(results[d])}]
      /\ \E to \in {AfterList(d), "failing"} : pc' = [pc EXCEPT ![d] = to]
  BY DEF IndexFails, Moves, Fault, CountsNothing
<1>2. /\ UNCHANGED <<tenant, shape, status, count, ingested>>
      /\ at' = [at EXCEPT ![d] = 1] /\ seen' = [seen EXCEPT ![d] = {}]
      /\ results' = [results EXCEPT ![d] = << >>]
  BY <1>1 DEF NextList, docVars
<1>3. indexed' = indexed
  <2>1. indexed \in [Doc -> 0 .. 2 * Cap] /\ indexed[d] + 0 = indexed[d]
    BY CapAssumption DEF IInv, TypeOK, JobTypeOK
  <2> QED BY <1>1, <2>1
<1>4. /\ lost' \in [Doc -> SUBSET Hash]
      /\ \A x \in Doc : lost[x] \subseteq lost'[x]
      /\ \A i \in 1 .. Len(results[d]) : results[d][i] \in lost'[d]
  <2>1. {results[d][i] : i \in 1 .. Len(results[d])} \in SUBSET Hash
    BY DEF IInv, TypeOK, JobTypeOK
  <2> QED BY <1>1, <2>1 DEF IInv, TypeOK, DocTypeOK
<1>5. PICK to \in {AfterList(d), "failing"} : pc' = [pc EXCEPT ![d] = to]
  BY <1>1
<1>6. PICK K, N :
        /\ N = {} \/ N = Upserted(d)
        /\ K \in SUBSET PointsOf(d) /\ K \cap N = {}
        /\ points' = (points \ PointsOf(d)) \cup K \cup N
        /\ Below(d) \/ N = {} => K = PointsOf(d)
        /\ N = {} \/ "upsertUnknown" \in Faults
  <2>1. CASE points' = points
    <3>1. points' = (points \ PointsOf(d)) \cup PointsOf(d) \cup {}
      BY <2>1 DEF PointsOf
    <3> QED BY <3>1
  <2>2. CASE points' = Overwrite(Upserted(d)) /\ "upsertUnknown" \in Faults
    <3>1. Upserted(d) = {} => Spared(d) = PointsOf(d)
      BY DEF Spared
    <3> QED BY <1>1, <2>2, <3>1, NewPoints
  <2> QED BY <1>1, <2>1, <2>2
<1>7. N \subseteq [doc : {d}, index : Indexes, hash : Hash, from : {pc[d]}] /\ pc[d] \in Lists
  BY <1>1, <1>6, NewPoints DEF AtEnd, Lists
<1>8. TypeOK'
  <2>1. results' \in [Doc -> Seq(Hash)] /\ \A x \in Doc : Len(results'[x]) < at'[x]
    BY <1>2 DEF IInv, TypeOK, JobTypeOK
  <2>2. pc' \in [Doc -> {"idle", "clearing", "counting", "finishing", "failing"} \cup Lists]
        /\ at' \in [Doc -> 1 .. Cap + 1] /\ seen' \in [Doc -> SUBSET Hash]
    BY <1>2, <1>5, CapAssumption DEF IInv, TypeOK, JobTypeOK, AfterList, Lists
  <2>3. PointTypeOK'
    BY <1>6, <1>7 DEF IInv, TypeOK, PointTypeOK, PointsOf
  <2> QED BY <1>1, <1>2, <1>3, <1>4, <2>1, <2>2, <2>3 DEF IInv, TypeOK, DocTypeOK, JobTypeOK
<1>9. /\ \A x \in Doc \ {d} : PointsOf(x)' = PointsOf(x)
      /\ \A x \in Doc : \A h : Known(x, h) => Known(x, h)'
  <2>1. \A x \in Doc \ {d} : PointsOf(x)' = PointsOf(x)
    <3>1. \A p \in N : p.doc = d
      BY <1>7
    <3> QED BY <1>6, <3>1 DEF PointsOf
  <2> QED BY <1>1, <1>4, <2>1 DEF Known
<1>10. Apart(d)
  BY <1>1, <1>2, <1>3, <1>5, <1>9 DEF Apart, IInv, TypeOK, JobTypeOK
<1>11. Relied'
  <2>1. "upsertUnknown" \notin Faults => points' = points
    BY <1>1
  <2> QED BY <1>1, <1>2, <2>1 DEF IInv, Relied, PointsOf
<1>12. \A i \in 1 .. Len(results[d]) : \A h : h = results[d][i] => Known(d, h)'
  BY <1>4 DEF Known
<1>13. /\ indexed'[d] = indexed[d] /\ (pc[d] = "tables" => offset'[d] = offset[d])
       /\ (\A p \in N : p.index < offset'[d]) \/ "upsertUnknown" \in Faults
  BY <1>1, <1>3, <1>6
<1> QED BY <1>1, <1>5, <1>6, <1>8, <1>9, <1>10, <1>11, <1>12, <1>13, ListEnds

-----------------------------------------------------------------------------
(* The rest of the job.                                                     *)

LEMMA StandaloneFailsStep == ASSUME IInv, NEW d \in Doc, StandaloneFails(d) PROVE IInv'
<1>1. /\ pc[d] = "figures" /\ pc' = [pc EXCEPT ![d] = "failing"]
      /\ Kind(d) = "image" /\ at[d] <= Len(Elements(d, "figures"))
      /\ UNCHANGED <<tenant, shape, status, count, ingested, points, at, seen, results, offset,
                     indexed, relies, lost>>
  BY DEF StandaloneFails, Moves, Examining, docVars, history
<1>2. TypeOK'
  BY <1>1 DEF IInv, TypeOK, DocTypeOK, PointTypeOK, JobTypeOK
<1>3. (\A x \in Doc : PointsOf(x)' = PointsOf(x)) /\ \A x, h : Known(x, h)' = Known(x, h)
  BY <1>1 DEF PointsOf, Known
<1>4. Apart(d)
  BY <1>1, <1>3 DEF Apart, IInv, TypeOK, JobTypeOK
<1>5. Relied'
  BY <1>1, <1>3 DEF IInv, Relied
<1>6. DocInv(d)'
  <2>1. /\ pc'[d] = "failing" /\ DocInv(d) /\ Kind(d)' = Kind(d)
        /\ \A h : Captioned(d, h)' = Captioned(d, h)
    BY <1>1, SameShape DEF IInv, TypeOK, JobTypeOK, Captioned
  <2>2. Rested(d)' /\ Placed(d)'
    BY <2>1 DEF Rested, Placed, Below
  <2>3. Once(d)'
    BY <1>1, <1>3, <2>1 DEF DocInv, Once
  <2>4. Handled(d)'
    BY <1>1, <1>3, <2>1 DEF DocInv, Handled, Lists
  <2>5. Covered(d)' /\ Tallied(d)'
    BY <1>1, <1>3, <2>1 DEF DocInv, Covered, Ended, Settled, Tallied, Lists
  <2> QED BY <2>2, <2>3, <2>4, <2>5 DEF DocInv
<1> QED BY <1>2, <1>4, <1>5, <1>6, OneDoc

LEMMA CountStep == ASSUME IInv, NEW d \in Doc, Count(d) PROVE IInv'
<1>1. /\ pc[d] = "counting"
      /\ \/ /\ pc' = [pc EXCEPT ![d] = "finishing"]
            /\ count' = [count EXCEPT ![d] = IF indexed[d] > 0 THEN indexed[d] ELSE @]
         \/ /\ pc' = [pc EXCEPT ![d] = "finishing"] \/ pc' = [pc EXCEPT ![d] = "failing"]
            /\ count' = count
      /\ UNCHANGED <<tenant, shape, status, ingested, points, at, seen, results, offset,
                     indexed, relies, lost>>
  BY DEF Count, Moves, history
<1>2. /\ count' \in [Doc -> 0 .. 2 * Cap] /\ \A x \in Doc \ {d} : count'[x] = count[x]
      /\ count'[d] = count[d] \/ count'[d] = indexed[d]
  BY <1>1 DEF IInv, TypeOK, DocTypeOK, JobTypeOK
<1>3. /\ pc' \in [Doc -> {"idle", "clearing", "counting", "finishing", "failing"} \cup Lists]
      /\ pc'[d] \in {"finishing", "failing"} /\ \A x \in Doc \ {d} : pc'[x] = pc[x]
  BY <1>1 DEF IInv, TypeOK, JobTypeOK
<1>4. TypeOK'
  BY <1>1, <1>2, <1>3 DEF IInv, TypeOK, DocTypeOK, PointTypeOK, JobTypeOK
<1>5. (\A x \in Doc : PointsOf(x)' = PointsOf(x)) /\ \A x, h : Known(x, h)' = Known(x, h)
  BY <1>1 DEF PointsOf, Known
<1>6. Apart(d)
  BY <1>1, <1>2, <1>3, <1>5 DEF Apart
<1>7. Relied'
  BY <1>1, <1>5 DEF IInv, Relied
<1>8. DocInv(d)'
  <2>1. /\ DocInv(d) /\ Kind(d)' = Kind(d) /\ \A h : Captioned(d, h)' = Captioned(d, h)
        /\ \A l : Elements(d, l)' = Elements(d, l) /\ \A h : Exempt(d, h)' = Exempt(d, h)
    BY <1>1, SameShape DEF IInv, Captioned
  <2>2. Rested(d)' /\ Placed(d)'
    BY <1>3 DEF Rested, Placed, Below
  <2>3. Once(d)'
    BY <1>1, <1>5, <2>1 DEF DocInv, Once
  <2>4. Handled(d)'
    BY <1>1, <1>3, <1>5, <2>1 DEF DocInv, Handled, Lists
  <2>5. Covered(d)'
    BY <1>1, <1>3, <1>5, <2>1 DEF DocInv, Covered, Ended, Settled
  <2>6. Tallied(d)'
    <3>1. IsFiniteSet(PointsOf(d)) /\ indexed[d] <= Cardinality(PointsOf(d)) /\ ingested[d] # 0
          /\ (ingested[d] = 1 => count[d] = 0)
      BY <1>1, <2>1 DEF DocInv, Tallied
    <3>2. Cardinality(PointsOf(d)) \in Nat
      BY <3>1, FS_CardinalityType
    <3>3. ingested[d] = 1 => count'[d] <= Cardinality(PointsOf(d))
      BY <1>2, <3>1, <3>2
    <3> QED BY <1>1, <1>3, <1>5, <3>1, <3>3 DEF Tallied, Settled, Lists
  <2> QED BY <2>2, <2>3, <2>4, <2>5, <2>6 DEF DocInv
<1> QED BY <1>4, <1>6, <1>7, <1>8, OneDoc

\* A job ends READY from where its lists are in full, or FAILED.
LEMMA EndStep ==
  ASSUME IInv, NEW d \in Doc, Finish(d) \/ Fail(d) PROVE IInv'
<1>1. /\ \/ pc[d] = "finishing" /\ status' = [status EXCEPT ![d] = "READY"]
         \/ pc[d] = "failing" /\ status' = [status EXCEPT ![d] = "FAILED"]
      /\ pc' = [pc EXCEPT ![d] = "idle"]
      /\ at' = [at EXCEPT ![d] = 1] /\ seen' = [seen EXCEPT ![d] = {}]
      /\ results' = [results EXCEPT ![d] = << >>]
      /\ offset' = [offset EXCEPT ![d] = 0] /\ indexed' = [indexed EXCEPT ![d] = 0]
      /\ UNCHANGED <<tenant, shape, count, ingested, points, relies, lost>>
  BY DEF Finish, Fail, Ends, Moves, history
<1>2. TypeOK'
  <2>1. results' \in [Doc -> Seq(Hash)] /\ \A x \in Doc : Len(results'[x]) < at'[x]
    BY <1>1 DEF IInv, TypeOK, JobTypeOK
  <2>2. 1 \in 1 .. Cap + 1 /\ 0 \in 0 .. Cap /\ 0 \in 0 .. 2 * Cap
    BY CapAssumption
  <2> QED BY <1>1, <2>1, <2>2 DEF IInv, TypeOK, DocTypeOK, PointTypeOK, JobTypeOK
<1>3. (\A x \in Doc : PointsOf(x)' = PointsOf(x)) /\ \A x, h : Known(x, h)' = Known(x, h)
  BY <1>1 DEF PointsOf, Known
<1>4. Apart(d)
  BY <1>1, <1>3 DEF Apart, IInv, TypeOK, DocTypeOK, JobTypeOK
<1>5. Relied'
  BY <1>1, <1>3 DEF IInv, Relied
<1>6. DocInv(d)'
  <2>1. /\ pc'[d] = "idle" /\ at'[d] = 1 /\ seen'[d] = {} /\ results'[d] = << >>
        /\ offset'[d] = 0 /\ indexed'[d] = 0 /\ DocInv(d) /\ Kind(d)' = Kind(d)
        /\ \/ status'[d] = "READY" /\ pc[d] = "finishing"
           \/ status'[d] = "FAILED" /\ pc[d] = "failing"
        /\ \A l : Elements(d, l)' = Elements(d, l) /\ \A h : Exempt(d, h)' = Exempt(d, h)
    <3>1. /\ Kind(d)' = Kind(d)
          /\ \A l : Elements(d, l)' = Elements(d, l) /\ \A h : Exempt(d, h)' = Exempt(d, h)
      BY <1>1, SameShape
    <3>2. \/ status'[d] = "READY" /\ pc[d] = "finishing"
          \/ status'[d] = "FAILED" /\ pc[d] = "failing"
      BY <1>1 DEF IInv, TypeOK, DocTypeOK
    <3>3. pc'[d] = "idle" /\ at'[d] = 1 /\ seen'[d] = {} /\ results'[d] = << >>
      BY <1>1 DEF IInv, TypeOK, JobTypeOK
    <3>4. offset'[d] = 0 /\ indexed'[d] = 0 /\ DocInv(d)
      BY <1>1 DEF IInv, TypeOK, JobTypeOK
    <3> QED BY <3>1, <3>2, <3>3, <3>4
  <2>2. Rested(d)' /\ Placed(d)'
    BY <2>1 DEF Rested, Placed, Below
  <2>3. Once(d)'
    BY <1>3, <2>1 DEF DocInv, Once
  <2>4. Handled(d)'
    BY <2>1 DEF Handled, Lists
  <2>5. Covered(d)'
    BY <1>3, <2>1 DEF DocInv, Covered, Ended, Settled
  <2>6. Tallied(d)'
    BY <1>1, <1>3, <2>1 DEF DocInv, Tallied, Settled, Lists
  <2> QED BY <2>2, <2>3, <2>4, <2>5, <2>6 DEF DocInv
<1> QED BY <1>2, <1>4, <1>5, <1>6, OneDoc

-----------------------------------------------------------------------------
(* The theorems.                                                            *)

LEMMA NextStep == ASSUME IInv, [Next]_vars PROVE IInv'
<1>1. CASE Next
  <2>1. PICK d \in Doc : \/ Start(d) \/ Clear(d) \/ Skip(d) \/ NoPayload(d) \/ DownloadFails(d)
                         \/ AlreadyIndexed(d) \/ Overcounted(d)
                         \/ Caption(d) \/ CaptionFails(d) \/ Index(d) \/ IndexFails(d)
                         \/ StandaloneFails(d) \/ Count(d) \/ Finish(d) \/ Fail(d) \/ Delete(d)
    BY <1>1 DEF Next
  <2> QED BY <2>1, StartStep, ClearStep, SkipStep, NoPayloadStep, DownloadFailsStep, AlreadyIndexedStep,
             OvercountedStep, CaptionStep, CaptionFailsStep, IndexStep, IndexFailsStep, StandaloneFailsStep, CountStep, EndStep, DeleteStep
<1>2. CASE UNCHANGED vars
  <2>1. /\ UNCHANGED <<tenant, shape, status, count, ingested, points, pc, at, seen, results, offset>>
        /\ UNCHANGED <<indexed, relies, lost>>
    BY <1>2 DEF vars, docVars, jobVars, history
  <2>2. TypeOK' /\ Relied'
    <3>1. TypeOK'
      BY <2>1 DEF IInv, TypeOK, DocTypeOK, PointTypeOK, JobTypeOK
    <3>2. Relied'
      BY <2>1 DEF IInv, Relied, PointsOf
    <3> QED BY <3>1, <3>2
  <2>3. ASSUME NEW d \in Doc PROVE DocInv(d)'
    <3>1. /\ DocInv(d) /\ Kind(d)' = Kind(d) /\ PointsOf(d)' = PointsOf(d)
          /\ \A l : Elements(d, l)' = Elements(d, l) /\ \A h : Exempt(d, h)' = Exempt(d, h)
          /\ \A h : Known(d, h)' = Known(d, h) /\ Captioned(d, h)' = Captioned(d, h)
      BY <2>1, SameShape DEF IInv, PointsOf, Known, Captioned
    <3>2. Rested(d)' /\ Placed(d)' /\ Once(d)'
      BY <2>1, <3>1 DEF DocInv, Rested, Placed, Below, Once
    <3>3. Handled(d)' /\ Covered(d)' /\ Tallied(d)'
      BY <2>1, <3>1 DEF DocInv, Handled, Covered, Ended, Settled, Tallied
    <3> QED BY <3>2, <3>3 DEF DocInv
  <2> QED BY <2>2, <2>3 DEF IInv
<1> QED BY <1>1, <1>2

\* The invariant holds of every behaviour.
THEOREM Invariance == Spec => []IInv
<1>1. Init => IInv
  BY Start0
<1>2. IInv /\ [Next]_vars => IInv'
  BY NextStep
<1> QED BY <1>1, <1>2, PTL DEF Spec

\* Every variable keeps its type; no list outgrows MAX_IMAGES_PER_DOCUMENT.
THEOREM TypeCorrect == Spec => []TypeOK
<1>1. IInv => TypeOK
  BY DEF IInv
<1> QED BY <1>1, Invariance, PTL

\* Every image wanted of a READY document can be found in its tenant, or was left
\* out for a reason that the dedup and the ids do not give (EveryImageFindable
\* lists them), if no failed upsert was applied.
THEOREM FindableCorrect == ASSUME Definite PROVE Spec => []EveryImageFindable
<1>1. IInv => EveryImageFindable
  <2> SUFFICES ASSUME IInv, NEW d \in Doc, Settled(d), NEW h \in Wanted(d)
               PROVE  h \in lost[d] \/ Found(d, h)
    BY DEF EveryImageFindable
  <2>1. PICK l \in Lists : \E i \in DOMAIN Elements(d, l) : Elements(d, l)[i] = h
    BY DEF Wanted
  <2>2. /\ \E i \in 1 .. Len(Elements(d, l)) : Elements(d, l)[i] = h
        /\ ~Exempt(d, h) /\ h \in Hash
    BY <2>1, ElementsType DEF IInv, TypeOK, Wanted
  <2>3. Known(d, h)
    BY <2>2 DEF IInv, DocInv, Covered, Ended
  <2>4. ASSUME NEW x \in Doc, <<h, x>> \in relies[d] PROVE Found(d, h)
    <3>1. PICK p \in PointsOf(x) : p.hash = h /\ tenant[x] = tenant[d]
      BY <2>2, <2>4 DEF IInv, Relied, Definite
    <3> QED BY <3>1 DEF Found, PointsOf
  <2> QED BY <2>3, <2>4 DEF Known
<1> QED BY <1>1, Invariance, PTL

\* A PDF that repeats an image does not flood the index with it.
THEOREM RepeatsCorrect == Spec => []RepeatsIndexedOnce
<1>1. IInv => RepeatsIndexedOnce
  BY DEF IInv, DocInv, Once, RepeatsIndexedOnce, PointsOf, TypeOK, PointTypeOK
<1> QED BY <1>1, Invariance, PTL

\* The count that a first ingestion leaves is of points that are in the index.
THEOREM CountCorrect == Spec => []NoPhantomImages
<1>1. IInv => NoPhantomImages
  BY DEF IInv, DocInv, Tallied, NoPhantomImages, Settled
<1> QED BY <1>1, Invariance, PTL

\* No upsert replaces a point: the ids of the tables lie behind those of the
\* figures.
THEOREM PointsCorrect == ASSUME Definite PROVE Spec => NothingOverwritten
<1> DEFINE Kept == \A p \in points : p \in points' \/ ~\E q \in points' : q.doc = p.doc
<1>1. ASSUME IInv, [Next]_vars PROVE Kept \/ UNCHANGED vars
  <2> SUFFICES ASSUME Next PROVE Kept
    BY <1>1
  <2>1. PICK d \in Doc : \/ Start(d) \/ Clear(d) \/ Skip(d) \/ NoPayload(d) \/ DownloadFails(d)
                         \/ AlreadyIndexed(d) \/ Overcounted(d)
                         \/ Caption(d) \/ CaptionFails(d) \/ Index(d) \/ IndexFails(d)
                         \/ StandaloneFails(d) \/ Count(d) \/ Finish(d) \/ Fail(d) \/ Delete(d)
    BY DEF Next
  <2>2. CASE points' = points
    BY <2>2
  <2>3. CASE Removes(d)
    BY <2>3 DEF Removes, PointsOf
  <2>4. CASE Index(d)
    <3>1. Below(d)
      BY <1>1, <2>4 DEF Index, AtEnd, IInv, DocInv, Placed, Below, Definite
    <3> QED BY <1>1, <2>4, <3>1, NewPoints DEF Index
  <2>5. IndexFails(d) => points' = points
    BY DEF IndexFails, Fault, Definite
  <2>6. Clear(d) \/ Delete(d) => Removes(d)
    BY DEF Clear, Delete
  <2>7. Start(d) \/ Skip(d) \/ NoPayload(d) \/ DownloadFails(d) \/ AlreadyIndexed(d)
        \/ Overcounted(d) \/ Caption(d) \/ CaptionFails(d) \/ StandaloneFails(d) \/ Count(d) \/ Finish(d) \/ Fail(d) => points' = points
    BY DEF Start, Skip, NoPayload, DownloadFails, AlreadyIndexed, Overcounted, Caption, CaptionFails,
           Passes, StandaloneFails,
           Count, Finish, Fail, Ends
  <2> QED BY <2>1, <2>2, <2>3, <2>4, <2>5, <2>6, <2>7
<1>2. IInv /\ [Next]_vars => [Kept]_vars
  BY <1>1
<1> QED BY <1>2, Invariance, PTL DEF Spec, NothingOverwritten

=============================================================================
