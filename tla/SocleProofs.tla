---------------------------- MODULE SocleProofs ----------------------------
(***************************************************************************)
(* Proofs about what the processes share: ArrierePlan, for any finite set  *)
(* of messages, any lanes and any bounds; Taches, for any processes and    *)
(* periods; Receptions, for any finite set of uploads.                     *)
(*                                                                         *)
(* That a lane keeps its bounds, and that an empty queue means that all is *)
(* over, are not inductive: both follow from what the counters count.  The *)
(* invariant says that the queue of a lane holds, once each, the messages  *)
(* that wait in it; that the places taken are those of the messages in     *)
(* flight and of those whose call is over and not yet released; and that   *)
(* reessais is the number of messages between two attempts.                *)
(***************************************************************************)
EXTENDS ArrierePlan, Taches, Receptions, TLAPS, FiniteSetTheorems, SequenceTheorems

Etats == {"neuf", "en_file", "en_cours", "reessai"} \cup Finis
Dehors == {"reessai"} \cup Finis

\* The messages that hold a place of lane v: in flight, or not yet released.
Places(v, e, L) == {m \in Envois : VoieDe[m] = v /\ (e[m] = "en_cours" \/ m \in L)}

EnReessai(e) == {m \in Envois : e[m] = "reessai"}

\* Queue f holds the messages that wait in lane v, each once.
FileJuste(v, f, e) ==
    /\ f \in Seq(Envois)
    /\ Len(f) <= MaxFile
    /\ \A i \in 1 .. Len(f) : VoieDe[f[i]] = v /\ e[f[i]] = "en_file"
    /\ \A i, j \in 1 .. Len(f) : f[i] = f[j] => i = j
    /\ \A m \in Envois : VoieDe[m] = v /\ e[m] = "en_file" => \E i \in 1 .. Len(f) : f[i] = m

VoieJuste(v, f, n, e, L) ==
    /\ FileJuste(v, f, e)
    /\ n = Cardinality(Places(v, e, L))
    /\ n <= Limite

TypeOK ==
    /\ file \in [Voies -> Seq(Envois)]
    /\ actifs \in [Voies -> Nat]
    /\ etat \in [Envois -> Etats]
    /\ reste \in [Envois -> Nat \ {0}]
    /\ aLiberer \in SUBSET Envois
    /\ reessais \in Nat
    /\ arret \in {"marche", "vidange", "vide", "delai_depasse", "mort"}

VoiesJustes == \A v \in Voies : VoieJuste(v, file[v], actifs[v], etat, aLiberer)
ReessaisComptes == reessais = Cardinality(EnReessai(etat))
LiberationsJustes == \A m \in aLiberer : etat[m] \in Dehors

IInv == TypeOK /\ VoiesJustes /\ ReessaisComptes /\ LiberationsJustes

-----------------------------------------------------------------------------
(* Places and retries *)

LEMMA PlacesFinies ==
    ASSUME Hypotheses, NEW v, NEW e, NEW L
    PROVE  /\ IsFiniteSet(Places(v, e, L)) /\ Cardinality(Places(v, e, L)) \in Nat
           /\ IsFiniteSet(EnReessai(e)) /\ Cardinality(EnReessai(e)) \in Nat
<1>1. Places(v, e, L) \in SUBSET Envois /\ EnReessai(e) \in SUBSET Envois
  BY DEF Places, EnReessai
<1>2. IsFiniteSet(Places(v, e, L)) /\ IsFiniteSet(EnReessai(e))
  BY <1>1, FS_Subset DEF Hypotheses
<1>3. QED
  BY <1>2, FS_CardinalityType

\* A lane whose messages are where they were stays right.
LEMMA VoieIntacte ==
    ASSUME NEW v, NEW f, NEW n, NEW e, NEW L, NEW d, NEW K,
           VoieJuste(v, f, n, e, L),
           \A m \in Envois : VoieDe[m] = v => /\ d[m] = "en_file" <=> e[m] = "en_file"
                                              /\ (d[m] = "en_cours" \/ m \in K)
                                                    <=> (e[m] = "en_cours" \/ m \in L)
    PROVE  VoieJuste(v, f, n, d, K)
<1>1. Places(v, d, K) = Places(v, e, L)
  BY DEF Places
<1>2. FileJuste(v, f, d)
  BY DEF VoieJuste, FileJuste
<1>3. QED
  BY <1>1, <1>2 DEF VoieJuste

-----------------------------------------------------------------------------
(* pomper *)

Partis(f, k) == {f[i] : i \in 1 .. k}
ApresDepart(e, partis) == [m \in Envois |-> IF m \in partis THEN "en_cours" ELSE e[m]]

LEMMA PomperEffet ==
    ASSUME NEW v, NEW f, NEW n, NEW e, Pomper(v, f, n, e)
    PROVE  /\ file' = [file EXCEPT ![v] = SubSeq(f, Departs(f, n) + 1, Len(f))]
           /\ actifs' = [actifs EXCEPT ![v] = n + Departs(f, n)]
           /\ etat' = ApresDepart(e, Partis(f, Departs(f, n)))
BY DEF Pomper, Partis, ApresDepart

LEMMA DepartsBornes ==
    ASSUME Hypotheses, NEW f \in Seq(Envois), NEW n \in Nat, n <= Limite
    PROVE  /\ Departs(f, n) \in 0 .. Len(f)
           /\ n + Departs(f, n) <= Limite
BY LenProperties DEF Departs, Hypotheses

\* As many messages leave as the queue loses.
LEMMA PartisComptes ==
    ASSUME NEW f \in Seq(Envois), NEW k \in 0 .. Len(f),
           \A i, j \in 1 .. Len(f) : f[i] = f[j] => i = j
    PROVE  Cardinality(Partis(f, k)) = k /\ IsFiniteSet(Partis(f, k))
<1>0. k \in Nat /\ k <= Len(f)
  BY LenProperties
<1> DEFINE b == [i \in 1 .. k |-> f[i]]
<1>1. b \in [1 .. k -> Partis(f, k)]
  BY DEF Partis
<1>2. IsInjective(b)
  BY <1>0, LenProperties DEF IsInjective
<1>3. \A t \in Partis(f, k) : \E i \in 1 .. k : b[i] = t
  BY DEF Partis
<1>4. b \in Bijection(1 .. k, Partis(f, k))
  BY <1>1, <1>2, <1>3 DEF Bijection, Injection, Surjection
<1>5. ExistsBijection(1 .. k, Partis(f, k))
  BY <1>4 DEF ExistsBijection
<1>6. Cardinality(Partis(f, k)) = k
  BY <1>0, <1>5, FS_CountingElements
<1>7. IsFiniteSet(1 .. k)
  BY <1>0, FS_Interval
<1>8. QED
  BY <1>5, <1>6, <1>7, FS_Bijection

\* The first k messages of the queue leave: the lane is right with them in flight.
LEMMA DepartJuste ==
    ASSUME Hypotheses, NEW v \in Voies, NEW f, NEW n, NEW e \in [Envois -> Etats],
           NEW L \in SUBSET Envois, VoieJuste(v, f, n, e, L),
           \A m \in L : e[m] \in Dehors,
           NEW k \in 0 .. Len(f), n + k <= Limite
    PROVE  VoieJuste(v, SubSeq(f, k + 1, Len(f)), n + k, ApresDepart(e, Partis(f, k)), L)
<1> DEFINE P == Partis(f, k)
           d == ApresDepart(e, P)
           q == SubSeq(f, k + 1, Len(f))
<1>0. /\ f \in Seq(Envois) /\ Len(f) <= MaxFile /\ n \in Nat /\ MaxFile \in Nat
      /\ Len(f) \in Nat /\ k \in Nat /\ k <= Len(f)
      /\ \A i \in 1 .. Len(f) : f[i] \in Envois /\ VoieDe[f[i]] = v /\ e[f[i]] = "en_file"
      /\ \A i, j \in 1 .. Len(f) : f[i] = f[j] => i = j
      /\ \A m \in Envois : VoieDe[m] = v /\ e[m] = "en_file" => \E i \in 1 .. Len(f) : f[i] = m
      /\ n = Cardinality(Places(v, e, L))
  BY PlacesFinies, LenProperties, ElementOfSeq DEF VoieJuste, FileJuste, Hypotheses
<1>1. /\ P \in SUBSET Envois
      /\ \A m \in P : VoieDe[m] = v /\ e[m] = "en_file"
      /\ \A m \in Envois : m \in P <=> \E i \in 1 .. k : f[i] = m
  BY <1>0 DEF Partis
<1>2. \A m \in Envois : d[m] = IF m \in P THEN "en_cours" ELSE e[m]
  BY DEF ApresDepart
<1>3. /\ q \in Seq(Envois)
      /\ Len(q) = Len(f) - k
      /\ \A i \in 1 .. Len(q) : q[i] = f[k + i]
  <2>1. \A i \in k + 1 .. Len(f) : f[i] \in Envois
    BY <1>0
  <2>2. /\ q \in Seq(Envois)
        /\ Len(q) = IF k + 1 <= Len(f) THEN Len(f) - (k + 1) + 1 ELSE 0
        /\ \A i \in 1 .. Len(f) - (k + 1) + 1 : q[i] = f[(k + 1) + i - 1]
    BY <1>0, <2>1, SubSeqProperties
  <2> HIDE DEF q
  <2>3. Len(q) = Len(f) - k
    <3>1. CASE k + 1 <= Len(f)
      BY <1>0, <2>2, <3>1
    <3>2. CASE ~(k + 1 <= Len(f))
      BY <1>0, <2>2, <3>2
    <3>3. QED
      BY <3>1, <3>2
  <2>4. \A i \in 1 .. Len(q) : q[i] = f[k + i]
    <3>1. TAKE i \in 1 .. Len(q)
    <3>2. i \in 1 .. Len(f) - (k + 1) + 1 /\ i \in Nat
      BY <1>0, <2>3
    <3>3. (k + 1) + i - 1 = k + i
      BY <1>0, <3>2
    <3>4. QED
      BY <2>2, <3>2, <3>3
  <2>5. QED
    BY <2>2, <2>3, <2>4
<1> HIDE DEF P, d, q
<1>4. FileJuste(v, q, d)
  <2>1. \A i \in 1 .. Len(q) : k + i \in 1 .. Len(f) /\ k + i > k
    BY <1>0, <1>3
  <2>2. \A i \in 1 .. Len(q) : q[i] \in Envois /\ q[i] \notin P
    <3>1. TAKE i \in 1 .. Len(q)
    <3>2. q[i] = f[k + i] /\ f[k + i] \in Envois
      BY <1>0, <1>3, <2>1
    <3>3. ASSUME NEW j \in 1 .. k PROVE f[j] # f[k + i]
      <4>1. j \in 1 .. Len(f) /\ k + i \in 1 .. Len(f) /\ j # k + i
        BY <1>0, <2>1
      <4>2. QED
        BY <1>0, <4>1
    <3>4. QED
      BY <1>1, <3>2, <3>3
  <2>3. ASSUME NEW i \in 1 .. Len(q) PROVE VoieDe[q[i]] = v /\ d[q[i]] = "en_file"
    <3>1. q[i] = f[k + i] /\ k + i \in 1 .. Len(f)
      BY <1>3, <2>1
    <3>2. VoieDe[q[i]] = v /\ e[q[i]] = "en_file"
      BY <1>0, <3>1
    <3>3. QED
      BY <1>2, <2>2, <3>2
  <2>4. ASSUME NEW i \in 1 .. Len(q), NEW j \in 1 .. Len(q), q[i] = q[j] PROVE i = j
    <3>1. f[k + i] = f[k + j]
      BY <1>3, <2>4
    <3>2. k + i = k + j
      BY <1>0, <2>1, <3>1
    <3>3. i \in Int /\ j \in Int
      BY <1>0, <1>3
    <3>4. QED
      BY <1>0, <3>2, <3>3
  <2>5. ASSUME NEW m \in Envois, VoieDe[m] = v, d[m] = "en_file"
        PROVE  \E i \in 1 .. Len(q) : q[i] = m
    <3>1. m \notin P /\ e[m] = "en_file"
      BY <1>2, <2>5
    <3>2. PICK j \in 1 .. Len(f) : f[j] = m
      BY <1>0, <2>5, <3>1
    <3>3. j > k
      BY <1>0, <1>1, <3>1, <3>2
    <3>4. j - k \in 1 .. Len(q) /\ k + (j - k) = j
      BY <1>0, <1>3, <3>2, <3>3
    <3>5. q[j - k] = m
      BY <1>3, <3>2, <3>4
    <3>6. QED
      BY <3>4, <3>5
  <2>6. Len(q) <= MaxFile
    BY <1>0, <1>3
  <2>7. QED
    BY <1>3, <2>3, <2>4, <2>5, <2>6 DEF FileJuste
<1>5. Places(v, d, L) = Places(v, e, L) \cup P
  BY <1>1, <1>2 DEF Places
<1>6. Places(v, e, L) \cap P = {}
  <2>1. SUFFICES ASSUME NEW m \in P, m \in Places(v, e, L) PROVE FALSE
    OBVIOUS
  <2>2. e[m] = "en_file"
    BY <1>1
  <2>3. m \in L
    BY <2>1, <2>2 DEF Places
  <2>4. QED
    BY <2>2, <2>3 DEF Dehors, Finis
<1>7. Cardinality(P) = k /\ IsFiniteSet(P)
  BY <1>0, PartisComptes DEF P
<1>8. IsFiniteSet(Places(v, e, L))
  BY PlacesFinies
<1>9. Cardinality(Places(v, d, L)) = n + k
  <2>1. Cardinality(Places(v, e, L) \cup P)
           = Cardinality(Places(v, e, L)) + Cardinality(P) - Cardinality(Places(v, e, L) \cap P)
    BY <1>7, <1>8, FS_Union
  <2>2. Cardinality(Places(v, e, L) \cap P) = 0
    BY <1>6, FS_EmptySet
  <2>3. QED
    BY <1>0, <1>5, <1>7, <2>1, <2>2
<1>10. VoieJuste(v, q, n + k, d, L)
  BY <1>4, <1>9 DEF VoieJuste
<1>11. QED
  BY <1>10 DEF P, d, q

\* pomper leaves every lane right, and moves no message but those that leave.
LEMMA PomperJuste ==
    ASSUME Hypotheses, TypeOK, NEW v \in Voies, NEW f, NEW n,
           NEW e \in [Envois -> Etats], NEW L \in SUBSET Envois,
           VoieJuste(v, f, n, e, L),
           \A w \in Voies : w # v => VoieJuste(w, file[w], actifs[w], e, L),
           \A m \in L : e[m] \in Dehors,
           Pomper(v, f, n, e)
    PROVE  /\ file' \in [Voies -> Seq(Envois)]
           /\ actifs' \in [Voies -> Nat]
           /\ etat' \in [Envois -> Etats]
           /\ \A w \in Voies : VoieJuste(w, file'[w], actifs'[w], etat', L)
           /\ EnReessai(etat') = EnReessai(e)
           /\ \A m \in L : etat'[m] \in Dehors
<1> DEFINE k == Departs(f, n)
           P == Partis(f, k)
           d == ApresDepart(e, P)
           q == SubSeq(f, k + 1, Len(f))
<1>1. file' = [file EXCEPT ![v] = q] /\ actifs' = [actifs EXCEPT ![v] = n + k] /\ etat' = d
  BY PomperEffet
<1>2. f \in Seq(Envois) /\ n \in Nat /\ n <= Limite
  BY PlacesFinies DEF VoieJuste, FileJuste
<1>3. k \in 0 .. Len(f) /\ n + k <= Limite
  BY <1>2, DepartsBornes
<1>4. k \in Nat /\ k <= Len(f) /\ Len(f) \in Nat
  BY <1>2, <1>3, LenProperties
<1>5. \A i \in 1 .. Len(f) : f[i] \in Envois /\ VoieDe[f[i]] = v /\ e[f[i]] = "en_file"
  BY <1>2, ElementOfSeq DEF VoieJuste, FileJuste
<1>6. \A m \in P : m \in Envois /\ VoieDe[m] = v /\ e[m] = "en_file"
  BY <1>4, <1>5 DEF Partis
<1> HIDE DEF k
<1>7. VoieJuste(v, q, n + k, d, L)
  BY <1>3, DepartJuste
<1> HIDE DEF P
<1>8. \A m \in Envois : d[m] = IF m \in P THEN "en_cours" ELSE e[m]
  BY DEF ApresDepart
<1>9. d \in [Envois -> Etats]
  BY <1>8 DEF ApresDepart, Etats
<1>10. \A m \in Envois : m \in P => e[m] = "en_file"
  BY <1>6
<1>11. EnReessai(d) = EnReessai(e)
  BY <1>8, <1>10 DEF EnReessai
<1>12. \A m \in L : d[m] = e[m]
  BY <1>8, <1>10 DEF Dehors, Finis
<1>13. \A m \in Envois : VoieDe[m] # v => d[m] = e[m]
  BY <1>6, <1>8
<1>14. q \in Seq(Envois)
  BY <1>7 DEF VoieJuste, FileJuste
<1> HIDE DEF q, d
<1>15. \A w \in Voies : VoieJuste(w, file'[w], actifs'[w], etat', L)
  <2>1. SUFFICES ASSUME NEW w \in Voies PROVE VoieJuste(w, file'[w], actifs'[w], d, L)
    BY <1>1
  <2>2. CASE w = v
    BY <1>1, <1>7, <2>2 DEF TypeOK
  <2>3. CASE w # v
    <3>1. file'[w] = file[w] /\ actifs'[w] = actifs[w]
      BY <1>1, <2>3 DEF TypeOK
    <3>2. VoieJuste(w, file[w], actifs[w], e, L)
      BY <2>3
    <3>3. VoieJuste(w, file[w], actifs[w], d, L)
      BY <1>13, <2>3, <3>2, VoieIntacte
    <3>4. QED
      BY <3>1, <3>3
  <2>4. QED
    BY <2>2, <2>3
<1>16. file' \in [Voies -> Seq(Envois)] /\ actifs' \in [Voies -> Nat]
  BY <1>1, <1>2, <1>4, <1>14 DEF TypeOK
<1>17. QED
  BY <1>1, <1>9, <1>11, <1>12, <1>15, <1>16

-----------------------------------------------------------------------------
(* lancer *)

\* The message m joins its queue: the lane is right with it.
LEMMA EntreeJuste ==
    ASSUME Hypotheses, NEW m \in Envois, NEW v, v = VoieDe[m], NEW f, NEW n, NEW e, NEW L, NEW d,
           e \in [Envois -> Etats], VoieJuste(v, f, n, e, L), Len(f) < MaxFile,
           e[m] \notin {"en_file", "en_cours"}, m \notin L,
           d = [e EXCEPT ![m] = "en_file"]
    PROVE  VoieJuste(v, Append(f, m), n, d, L)
<1> DEFINE q == Append(f, m)
<1>0. /\ f \in Seq(Envois) /\ Len(f) \in Nat /\ MaxFile \in Nat
      /\ \A i \in 1 .. Len(f) : f[i] \in Envois /\ VoieDe[f[i]] = v /\ e[f[i]] = "en_file"
      /\ \A i, j \in 1 .. Len(f) : f[i] = f[j] => i = j
      /\ \A x \in Envois : VoieDe[x] = v /\ e[x] = "en_file" => \E i \in 1 .. Len(f) : f[i] = x
  BY LenProperties, ElementOfSeq DEF VoieJuste, FileJuste, Hypotheses
<1>1. /\ q \in Seq(Envois) /\ Len(q) = Len(f) + 1
      /\ \A i \in 1 .. Len(f) : q[i] = f[i]
      /\ q[Len(f) + 1] = m
  BY <1>0, AppendProperties
<1>2. \A x \in Envois : d[x] = IF x = m THEN "en_file" ELSE e[x]
  OBVIOUS
<1> HIDE DEF q
<1>3. \A i \in 1 .. Len(f) : f[i] # m
  BY <1>0
<1>4. ASSUME NEW i \in 1 .. Len(q) PROVE i \in 1 .. Len(f) \/ i = Len(f) + 1
  BY <1>0, <1>1
<1>5. ASSUME NEW i \in 1 .. Len(q) PROVE VoieDe[q[i]] = v /\ d[q[i]] = "en_file"
  <2>1. CASE i \in 1 .. Len(f)
    BY <1>0, <1>1, <1>2, <2>1
  <2>2. CASE i = Len(f) + 1
    BY <1>1, <1>2, <2>2
  <2>3. QED
    BY <1>4, <2>1, <2>2
<1>6. ASSUME NEW i \in 1 .. Len(q), NEW j \in 1 .. Len(q), q[i] = q[j] PROVE i = j
  BY <1>0, <1>1, <1>3, <1>4, <1>6
<1>7. ASSUME NEW x \in Envois, VoieDe[x] = v, d[x] = "en_file"
      PROVE  \E i \in 1 .. Len(q) : q[i] = x
  <2>1. CASE x = m
    <3>1. Len(f) + 1 \in 1 .. Len(q)
      BY <1>0, <1>1
    <3>2. QED
      BY <1>1, <2>1, <3>1
  <2>2. CASE x # m
    <3>1. PICK i \in 1 .. Len(f) : f[i] = x
      BY <1>0, <1>2, <1>7, <2>2
    <3>2. i \in 1 .. Len(q)
      BY <1>0, <1>1
    <3>3. QED
      BY <1>1, <3>1, <3>2
  <2>3. QED
    BY <2>1, <2>2
<1>8. Len(q) <= MaxFile
  BY <1>0, <1>1
<1>9. FileJuste(v, q, d)
  BY <1>1, <1>5, <1>6, <1>7, <1>8 DEF FileJuste
<1>10. Places(v, d, L) = Places(v, e, L)
  BY <1>2 DEF Places
<1>11. VoieJuste(v, q, n, d, L)
  BY <1>9, <1>10 DEF VoieJuste
<1>12. QED
  BY <1>11 DEF q

\* What lancer does, given a message that is in no lane.
LEMMA DeposerJuste ==
    ASSUME Hypotheses, IInv, NEW m \in Envois, etat[m] \in {"neuf", "reessai"}, m \notin aLiberer,
           Deposer(m)
    PROVE  /\ file' \in [Voies -> Seq(Envois)]
           /\ actifs' \in [Voies -> Nat]
           /\ etat' \in [Envois -> Etats]
           /\ \A w \in Voies : VoieJuste(w, file'[w], actifs'[w], etat', aLiberer)
           /\ EnReessai(etat') = EnReessai(etat) \ {m}
           /\ \A x \in aLiberer : etat'[x] \in Dehors
<1> DEFINE v == VoieDe[m]
           e == [etat EXCEPT ![m] = "en_file"]
<1>0. TypeOK /\ VoiesJustes /\ LiberationsJustes
  BY DEF IInv
<1>1. v \in Voies
  BY DEF Hypotheses
<1>2. CASE FilePleine(v)
  <2>1. etat' = [etat EXCEPT ![m] = "abandonne"] /\ file' = file /\ actifs' = actifs
    BY <1>2 DEF Deposer
  <2>2. \A x \in Envois : etat'[x] = IF x = m THEN "abandonne" ELSE etat[x]
    BY <1>0, <2>1 DEF TypeOK
  <2>3. etat' \in [Envois -> Etats]
    BY <1>0, <2>1 DEF TypeOK, Etats, Finis
  <2>4. EnReessai(etat') = EnReessai(etat) \ {m}
    BY <2>2 DEF EnReessai
  <2>5. \A x \in aLiberer : etat'[x] \in Dehors
    BY <1>0, <2>2 DEF LiberationsJustes, TypeOK
  <2>6. ASSUME NEW w \in Voies PROVE VoieJuste(w, file'[w], actifs'[w], etat', aLiberer)
    <3>1. VoieJuste(w, file[w], actifs[w], etat, aLiberer)
      BY <1>0 DEF VoiesJustes
    <3>2. VoieJuste(w, file[w], actifs[w], etat', aLiberer)
      BY <2>2, <3>1, VoieIntacte
    <3>3. QED
      BY <2>1, <3>2
  <2>7. QED
    BY <1>0, <2>1, <2>3, <2>4, <2>5, <2>6 DEF TypeOK
<1>3. CASE ~FilePleine(v)
  <2> DEFINE f == Append(file[v], m)
             n == actifs[v]
  <2>1. Pomper(v, f, n, e)
    BY <1>3 DEF Deposer
  <2>2. VoieJuste(v, file[v], n, etat, aLiberer)
    BY <1>0, <1>1 DEF VoiesJustes
  <2>3. Len(file[v]) < MaxFile
    BY <1>0, <1>1, <1>3, LenProperties DEF FilePleine, TypeOK, Hypotheses
  <2>4. VoieJuste(v, f, n, e, aLiberer)
    BY <1>0, <2>2, <2>3, EntreeJuste DEF TypeOK
  <2>5. \A x \in Envois : e[x] = IF x = m THEN "en_file" ELSE etat[x]
    BY <1>0 DEF TypeOK
  <2>6. e \in [Envois -> Etats] /\ aLiberer \in SUBSET Envois
    BY <1>0 DEF TypeOK, Etats
  <2>7. \A x \in aLiberer : e[x] \in Dehors
    BY <1>0, <2>5 DEF LiberationsJustes, TypeOK
  <2>8. EnReessai(e) = EnReessai(etat) \ {m}
    BY <2>5 DEF EnReessai
  <2>9. ASSUME NEW w \in Voies, w # v PROVE VoieJuste(w, file[w], actifs[w], e, aLiberer)
    <3>1. VoieJuste(w, file[w], actifs[w], etat, aLiberer)
      BY <1>0 DEF VoiesJustes
    <3>2. \A x \in Envois : VoieDe[x] = w => e[x] = etat[x]
      BY <2>5, <2>9
    <3> HIDE DEF e
    <3>3. QED
      BY <3>1, <3>2, VoieIntacte
  <2> HIDE DEF e, f, n, v
  <2>10. QED
    BY <1>0, <1>1, <2>1, <2>4, <2>6, <2>7, <2>8, <2>9, PomperJuste
<1>4. QED
  BY <1>2, <1>3

-----------------------------------------------------------------------------
(* The invariant is inductive *)

LEMMA InitIInv == ASSUME Hypotheses PROVE Init => IInv
<1> SUFFICES ASSUME Init PROVE IInv
  OBVIOUS
<1>1. TypeOK
  BY EmptySeq DEF Init, TypeOK, Etats, Hypotheses
<1>2. ASSUME NEW v \in Voies PROVE VoieJuste(v, file[v], actifs[v], etat, aLiberer)
  <2>1. Places(v, etat, aLiberer) = {}
    BY DEF Init, Places
  <2>2. actifs[v] = Cardinality(Places(v, etat, aLiberer))
    BY <2>1, FS_EmptySet DEF Init
  <2>3. FileJuste(v, file[v], etat)
    <3>1. file[v] = << >> /\ file[v] \in Seq(Envois) /\ Len(file[v]) = 0
      BY EmptySeq DEF Init
    <3>2. \A m \in Envois : etat[m] = "neuf"
      BY DEF Init
    <3>3. \A i \in 1 .. Len(file[v]) : FALSE
      BY <3>1
    <3>4. QED
      BY <3>1, <3>2, <3>3 DEF FileJuste, Hypotheses
  <2>4. actifs[v] <= Limite
    BY DEF Init, Hypotheses
  <2>5. QED
    BY <2>2, <2>3, <2>4 DEF VoieJuste
<1>3. EnReessai(etat) = {}
  BY DEF Init, EnReessai
<1>4. ReessaisComptes
  BY <1>3, FS_EmptySet DEF Init, ReessaisComptes
<1>5. QED
  BY <1>1, <1>2, <1>4 DEF IInv, VoiesJustes, LiberationsJustes, Init

LEMMA LancerIInv == ASSUME Hypotheses, IInv, NEW m \in Envois, Lancer(m) PROVE IInv'
<1>1. /\ etat[m] = "neuf" /\ Deposer(m)
      /\ reste' = reste /\ aLiberer' = aLiberer /\ reessais' = reessais /\ arret' = arret
  BY DEF Lancer
<1>2. m \notin aLiberer
  BY <1>1 DEF IInv, LiberationsJustes, Dehors, Finis
<1>3. /\ file' \in [Voies -> Seq(Envois)] /\ actifs' \in [Voies -> Nat]
      /\ etat' \in [Envois -> Etats]
      /\ \A w \in Voies : VoieJuste(w, file'[w], actifs'[w], etat', aLiberer)
      /\ EnReessai(etat') = EnReessai(etat) \ {m}
      /\ \A x \in aLiberer : etat'[x] \in Dehors
  BY <1>1, <1>2, DeposerJuste
<1>4. m \notin EnReessai(etat)
  BY <1>1 DEF EnReessai
<1>5. EnReessai(etat') = EnReessai(etat)
  BY <1>3, <1>4
<1>6. TypeOK'
  BY <1>1, <1>3 DEF IInv, TypeOK
<1>7. QED
  BY <1>1, <1>3, <1>5, <1>6 DEF IInv, VoiesJustes, ReessaisComptes, LiberationsJustes

LEMMA ReessayerIInv == ASSUME Hypotheses, IInv, NEW m \in Envois, Reessayer(m) PROVE IInv'
<1>1. /\ aLiberer = {} /\ etat[m] = "reessai" /\ Deposer(m) /\ reessais' = reessais - 1
      /\ reste' = reste /\ aLiberer' = aLiberer /\ arret' \in {arret, "vide"}
  BY DEF Reessayer, Signaler
<1>2. /\ file' \in [Voies -> Seq(Envois)] /\ actifs' \in [Voies -> Nat]
      /\ etat' \in [Envois -> Etats]
      /\ \A w \in Voies : VoieJuste(w, file'[w], actifs'[w], etat', aLiberer)
      /\ EnReessai(etat') = EnReessai(etat) \ {m}
      /\ \A x \in aLiberer : etat'[x] \in Dehors
  BY <1>1, DeposerJuste
<1>3. m \in EnReessai(etat) /\ IsFiniteSet(EnReessai(etat))
  BY <1>1, PlacesFinies DEF EnReessai
<1>4. Cardinality(EnReessai(etat) \ {m}) = Cardinality(EnReessai(etat)) - 1
  BY <1>3, FS_RemoveElement
<1>5. reessais' = Cardinality(EnReessai(etat'))
  BY <1>1, <1>2, <1>4 DEF IInv, ReessaisComptes
<1>6. reessais' \in Nat
  BY <1>5, PlacesFinies
<1>7. TypeOK'
  BY <1>1, <1>2, <1>6 DEF IInv, TypeOK
<1>8. QED
  BY <1>1, <1>2, <1>5, <1>7 DEF IInv, VoiesJustes, ReessaisComptes, LiberationsJustes

\* The call of m is over: it keeps its place until it is released.
LEMMA FinAppelIInv == ASSUME Hypotheses, IInv, NEW m \in Envois, FinAppel(m) PROVE IInv'
<1>0. TypeOK /\ VoiesJustes /\ ReessaisComptes /\ LiberationsJustes
  BY DEF IInv
<1>1. PICK s \in Dehors :
          /\ etat[m] = "en_cours" /\ etat' = [etat EXCEPT ![m] = s]
          /\ aLiberer' = aLiberer \cup {m} /\ UNCHANGED <<file, actifs, arret>>
          /\ s = "reessai" => /\ reste[m] > 1 /\ reste' = [reste EXCEPT ![m] = @ - 1]
                              /\ reessais' = reessais + 1
          /\ s # "reessai" => reste' = reste /\ reessais' = reessais
  BY DEF FinAppel, PlanifierReessai, Terminer, Dehors, Finis
<1>2. \A x \in Envois : etat'[x] = IF x = m THEN s ELSE etat[x]
  BY <1>0, <1>1 DEF TypeOK
<1>3. s \in Etats /\ s \notin {"en_file", "en_cours"}
  BY DEF Dehors, Etats, Finis
<1>4. etat' \in [Envois -> Etats]
  BY <1>0, <1>1, <1>3 DEF TypeOK
<1>5. ASSUME NEW w \in Voies PROVE VoieJuste(w, file[w], actifs[w], etat', aLiberer')
  <2>1. VoieJuste(w, file[w], actifs[w], etat, aLiberer)
    BY <1>0 DEF VoiesJustes
  <2>2. \A x \in Envois : /\ etat'[x] = "en_file" <=> etat[x] = "en_file"
                          /\ (etat'[x] = "en_cours" \/ x \in aLiberer')
                               <=> (etat[x] = "en_cours" \/ x \in aLiberer)
    BY <1>1, <1>2, <1>3
  <2>3. QED
    BY <2>1, <2>2, VoieIntacte
<1>6. reessais' = Cardinality(EnReessai(etat')) /\ reessais' \in Nat
  <2>1. CASE s = "reessai"
    <3>1. EnReessai(etat') = EnReessai(etat) \cup {m} /\ m \notin EnReessai(etat)
      BY <1>1, <1>2, <2>1 DEF EnReessai
    <3>2. Cardinality(EnReessai(etat) \cup {m}) = Cardinality(EnReessai(etat)) + 1
      BY <3>1, PlacesFinies, FS_AddElement
    <3>3. QED
      <4>1. reessais \in Nat /\ reessais = Cardinality(EnReessai(etat))
        BY <1>0 DEF ReessaisComptes, TypeOK
      <4>2. reessais' = reessais + 1
        BY <1>1, <2>1
      <4>3. QED
        BY <3>1, <3>2, <4>1, <4>2
  <2>2. CASE s # "reessai"
    <3>1. EnReessai(etat') = EnReessai(etat)
      BY <1>1, <1>2, <2>2 DEF EnReessai
    <3>2. QED
      BY <1>0, <1>1, <2>2, <3>1 DEF ReessaisComptes, TypeOK
  <2>3. QED
    BY <2>1, <2>2
<1>7. reste' \in [Envois -> Nat \ {0}]
  <2>1. CASE s = "reessai"
    <3>1. reste[m] - 1 \in Nat \ {0}
      BY <1>0, <1>1, <2>1 DEF TypeOK
    <3>2. reste' = [reste EXCEPT ![m] = reste[m] - 1]
      BY <1>1, <2>1
    <3>3. QED
      BY <1>0, <3>1, <3>2 DEF TypeOK
  <2>2. CASE s # "reessai"
    BY <1>0, <1>1, <2>2 DEF TypeOK
  <2>3. QED
    BY <2>1, <2>2
<1>8. TypeOK'
  BY <1>0, <1>1, <1>4, <1>6, <1>7 DEF TypeOK
<1>9. LiberationsJustes'
  BY <1>0, <1>1, <1>2 DEF LiberationsJustes, TypeOK
<1>10. VoiesJustes'
  BY <1>1, <1>5 DEF VoiesJustes
<1>11. QED
  BY <1>6, <1>8, <1>9, <1>10 DEF IInv, ReessaisComptes

LEMMA FinirIInv == ASSUME Hypotheses, IInv, NEW m \in Envois, Finir(m) PROVE IInv'
<1> DEFINE v == VoieDe[m]
           L == aLiberer \ {m}
           n == actifs[v] - 1
<1>0. TypeOK /\ VoiesJustes /\ ReessaisComptes /\ LiberationsJustes
  BY DEF IInv
<1>1. /\ m \in aLiberer /\ aLiberer' = L /\ Pomper(v, file[v], n, etat)
      /\ reste' = reste /\ reessais' = reessais /\ arret' \in {arret, "vide"}
  BY DEF Finir, Liberer, Signaler
<1>2. v \in Voies
  BY DEF Hypotheses
<1>3. etat[m] \in Dehors /\ etat[m] \notin {"en_file", "en_cours"}
  BY <1>0, <1>1 DEF LiberationsJustes, Dehors, Finis
<1>4. VoieJuste(v, file[v], actifs[v], etat, aLiberer)
  BY <1>0, <1>2 DEF VoiesJustes
<1>5. Places(v, etat, L) = Places(v, etat, aLiberer) \ {m} /\ m \in Places(v, etat, aLiberer)
  BY <1>1, <1>3 DEF Places
<1>6. Cardinality(Places(v, etat, aLiberer) \ {m}) = Cardinality(Places(v, etat, aLiberer)) - 1
  BY <1>5, PlacesFinies, FS_RemoveElement
<1>7. n = Cardinality(Places(v, etat, L)) /\ n <= Limite
  <2>1. actifs[v] \in Nat /\ Limite \in Nat
    BY <1>0, <1>2 DEF TypeOK, Hypotheses
  <2>2. actifs[v] = Cardinality(Places(v, etat, aLiberer)) /\ actifs[v] <= Limite
    BY <1>4 DEF VoieJuste
  <2>3. actifs[v] - 1 <= Limite
    BY <2>1, <2>2
  <2>4. QED
    BY <1>5, <1>6, <2>2, <2>3
<1>8. VoieJuste(v, file[v], n, etat, L)
  BY <1>4, <1>7 DEF VoieJuste
<1>9. ASSUME NEW w \in Voies, w # v PROVE VoieJuste(w, file[w], actifs[w], etat, L)
  <2>1. VoieJuste(w, file[w], actifs[w], etat, aLiberer)
    BY <1>0 DEF VoiesJustes
  <2>2. \A x \in Envois : VoieDe[x] = w => (x \in L <=> x \in aLiberer)
    BY <1>9
  <2>3. QED
    BY <2>1, <2>2, VoieIntacte
<1>10. etat \in [Envois -> Etats] /\ L \in SUBSET Envois /\ \A x \in L : etat[x] \in Dehors
  BY <1>0 DEF TypeOK, LiberationsJustes
<1> HIDE DEF L, n, v
<1>11. /\ file' \in [Voies -> Seq(Envois)] /\ actifs' \in [Voies -> Nat]
       /\ etat' \in [Envois -> Etats]
       /\ \A w \in Voies : VoieJuste(w, file'[w], actifs'[w], etat', L)
       /\ EnReessai(etat') = EnReessai(etat)
       /\ \A x \in L : etat'[x] \in Dehors
  <2>1. Pomper(v, file[v], n, etat)
    BY <1>1
  <2>2. QED
    BY <1>0, <1>2, <1>8, <1>9, <1>10, <2>1, PomperJuste
<1>12. TypeOK'
  BY <1>0, <1>1, <1>10, <1>11 DEF TypeOK
<1>13. QED
  BY <1>0, <1>1, <1>11, <1>12 DEF IInv, VoiesJustes, ReessaisComptes, LiberationsJustes

LEMMA NextIInv == ASSUME Hypotheses PROVE IInv /\ [Next]_vars => IInv'
<1> SUFFICES ASSUME IInv, [Next]_vars PROVE IInv'
  OBVIOUS
<1>1. ASSUME UNCHANGED <<file, actifs, etat, reste, aLiberer, reessais>>,
             arret' \in {"marche", "vidange", "vide", "delai_depasse", "mort"}
      PROVE  IInv'
  BY <1>1 DEF IInv, TypeOK, VoiesJustes, ReessaisComptes, LiberationsJustes
<1>2. CASE Vider \/ DepasserDelai \/ Mourir
  BY <1>1, <1>2 DEF Vider, DepasserDelai, Mourir
<1>3. CASE UNCHANGED vars
  BY <1>1, <1>3 DEF vars, IInv, TypeOK
<1>4. QED
  BY <1>2, <1>3, LancerIInv, FinAppelIInv, FinirIInv, ReessayerIInv DEF Next

-----------------------------------------------------------------------------
(* What the invariant gives *)

LEMMA BornesTenues == ASSUME Hypotheses PROVE IInv => VoiesBornees
<1> SUFFICES ASSUME IInv, NEW v \in Voies
             PROVE  /\ Len(file[v]) <= MaxFile
                    /\ Cardinality({m \in Envois : VoieDe[m] = v /\ etat[m] = "en_cours"}) <= Limite
  BY DEF VoiesBornees
<1> DEFINE E == {m \in Envois : VoieDe[m] = v /\ etat[m] = "en_cours"}
           P == Places(v, etat, aLiberer)
<1>1. VoieJuste(v, file[v], actifs[v], etat, aLiberer)
  BY DEF IInv, VoiesJustes
<1>2. Len(file[v]) <= MaxFile /\ Cardinality(P) <= Limite
  BY <1>1 DEF VoieJuste, FileJuste
<1>3. E \in SUBSET P
  BY DEF Places
<1>4. IsFiniteSet(P) /\ Cardinality(P) \in Nat
  BY PlacesFinies
<1>5. IsFiniteSet(E) /\ Cardinality(E) <= Cardinality(P)
  BY <1>3, <1>4, FS_Subset
<1>6. Cardinality(E) \in Nat
  BY <1>5, FS_CardinalityType
<1> HIDE DEF E, P
<1>7. Cardinality(E) <= Limite
  BY <1>2, <1>4, <1>5, <1>6 DEF Hypotheses
<1>8. QED
  BY <1>2, <1>7 DEF E

\* Nothing is occupied: every message is new or over.
LEMMA RienEnSuspens ==
    ASSUME Hypotheses, NEW f, NEW n, NEW e \in [Envois -> Etats], NEW L, NEW r,
           \A v \in Voies : VoieJuste(v, f[v], n[v], e, L),
           r = Cardinality(EnReessai(e)),
           ~Occupation(f, n, r), NEW m \in Envois
    PROVE  e[m] \in {"neuf"} \cup Finis
<1> DEFINE v == VoieDe[m]
<1>1. r = 0 /\ \A w \in Voies : n[w] = 0 /\ f[w] = << >>
  BY DEF Occupation
<1>2. v \in Voies
  BY DEF Hypotheses
<1>3. VoieJuste(v, f[v], n[v], e, L)
  BY <1>2
<1>4. e[m] # "reessai"
  <2>1. EnReessai(e) = {}
    BY <1>1, PlacesFinies, FS_EmptySet
  <2>2. QED
    BY <2>1 DEF EnReessai
<1>5. e[m] # "en_cours"
  <2>1. Cardinality(Places(v, e, L)) = 0 /\ IsFiniteSet(Places(v, e, L))
    BY <1>1, <1>2, <1>3, PlacesFinies DEF VoieJuste
  <2>2. Places(v, e, L) = {}
    BY <2>1, FS_EmptySet
  <2>3. QED
    BY <2>2 DEF Places
<1>6. e[m] # "en_file"
  <2>1. Len(f[v]) = 0
    BY <1>1, <1>2, EmptySeq
  <2>2. QED
    BY <1>3, <2>1 DEF VoieJuste, FileJuste
<1>7. QED
  BY <1>4, <1>5, <1>6 DEF Etats

\* vider answers that all is over only when it is.
LEMMA VidangeJuste == ASSUME Hypotheses PROVE IInv /\ IInv' /\ [Next]_vars => VidangeFidele
<1> SUFFICES ASSUME IInv, IInv', [Next]_vars, arret' = "vide", arret # "vide", NEW m \in Envois
             PROVE  etat'[m] \in {"neuf"} \cup Finis
  BY DEF VidangeFidele
<1>1. ~Occupation(file', actifs', reessais')
  <2>1. CASE Vider
    BY <2>1 DEF Vider
  <2>2. CASE \E x \in Envois : Finir(x) \/ Reessayer(x)
    BY <2>2 DEF Finir, Reessayer, Signaler
  <2>3. ~(\E x \in Envois : Lancer(x) \/ FinAppel(x))
    BY DEF Lancer, FinAppel, PlanifierReessai, Terminer
  <2>4. ~(DepasserDelai \/ Mourir \/ UNCHANGED vars)
    BY DEF DepasserDelai, Mourir, vars
  <2>5. QED
    BY <2>1, <2>2, <2>3, <2>4 DEF Next
<1>2. /\ etat' \in [Envois -> Etats]
      /\ \A v \in Voies : VoieJuste(v, file'[v], actifs'[v], etat', aLiberer')
      /\ reessais' = Cardinality(EnReessai(etat'))
  BY DEF IInv, TypeOK, VoiesJustes, ReessaisComptes
<1>3. QED
  BY <1>1, <1>2, RienEnSuspens

-----------------------------------------------------------------------------
(* The theorems *)

\* The shape of the lanes: each queue holds the messages that wait in it, the places taken are
\* those of the calls in flight or just over, reessais counts the messages to be retried
\* (voie, pomper, lancer): whatever the order in which calls end and timers fire.
THEOREM FileComptee == Hypotheses /\ Spec => []IInv
<1> SUFFICES ASSUME Hypotheses PROVE Spec => []IInv
  OBVIOUS
<1>1. Init => IInv
  BY InitIInv
<1>2. IInv /\ [Next]_vars => IInv'
  BY NextIInv
<1>3. QED
  BY <1>1, <1>2, PTL DEF Spec

\* Every step keeps the bounds of the lanes, MAX_FILE messages that wait and Limite calls in
\* flight; and vider answers that all is over only when no message entrusted to the queue is
\* pending, not even one between two attempts (signalerSiVide).
THEOREM FileBornee == Hypotheses /\ Spec => FileTenue
<1> SUFFICES ASSUME Hypotheses PROVE Spec => FileTenue
  OBVIOUS
<1>1. Init => IInv
  BY InitIInv
<1>2. IInv /\ [Next]_vars => IInv'
  BY NextIInv
<1>3. IInv => VoiesBornees
  BY BornesTenues
<1>4. IInv /\ IInv' /\ [Next]_vars => VidangeFidele
  BY VidangeJuste
<1>5. QED
  BY <1>1, <1>2, <1>3, <1>4, PTL DEF Spec, FileTenue

-----------------------------------------------------------------------------
(* The scheduled tasks.  A reminder of the day is sent, or about to be, by *)
(* one process and only once the day is reserved.  The slots of the hour   *)
(* are more than PERIODE_HORAIRE apart and time stands still between a     *)
(* slot and its alert: the alerts of one study are dated by their slots.   *)

Alertants == {"expirer", "alerter"}

TypeTaches ==
    /\ age \in 0 .. HEURE
    /\ retard \in -1 .. HEURE
    /\ relances \in Nat /\ alertes \in Nat
    /\ faitCeJour \in BOOLEAN
    /\ travail \in [Processus -> Etapes]

RelanceUnique ==
    /\ relances <= 1
    /\ ~faitCeJour => relances = 0
    /\ \A p \in Processus : travail[p] = "relancer" => faitCeJour /\ relances = 0
    /\ \A p, q \in Processus : travail[p] = "relancer" /\ travail[q] = "relancer" => p = q

CreneauUnique ==
    /\ \A p \in Processus : travail[p] \in Alertants => age = 0
    /\ \A p, q \in Processus : travail[p] \in Alertants /\ travail[q] \in Alertants => p = q

AlertesDatees ==
    /\ alertes <= 2
    /\ alertes >= 1 => age <= retard
    /\ alertes = 2 => retard = HEURE \/ age + PERIODE_HORAIRE < retard
    /\ \A p \in Processus : travail[p] \in Alertants =>
          /\ alertes = 1 => PERIODE_HORAIRE < retard
          /\ alertes = 2 => retard = HEURE

InvTaches == TypeTaches /\ RelanceUnique /\ CreneauUnique /\ AlertesDatees

LEMMA InitInvTaches == ASSUME HypothesesTaches PROVE InitTaches => InvTaches
<1> SUFFICES ASSUME InitTaches PROVE InvTaches
  OBVIOUS
<1>0. HEURE \in Nat
  BY DEF HypothesesTaches
<1>1. /\ age = HEURE /\ retard = -1 /\ relances = 0 /\ alertes = 0 /\ faitCeJour = FALSE
      /\ travail = [p \in Processus |-> "repos"]
  BY DEF InitTaches
<1>2. travail \in [Processus -> Etapes] /\ \A p \in Processus : travail[p] = "repos"
  BY <1>1 DEF Etapes
<1>3. age \in 0 .. HEURE /\ retard \in -1 .. HEURE
  BY <1>0, <1>1
<1>4. faitCeJour \in BOOLEAN
  BY <1>1
<1>5. QED
  BY <1>0, <1>1, <1>2, <1>3, <1>4
     DEF InvTaches, TypeTaches, RelanceUnique, CreneauUnique, AlertesDatees, Alertants

\* Time passes: no process is between a slot and its tasks.
LEMMA AvancerInvTaches == ASSUME HypothesesTaches, InvTaches, Avancer PROVE InvTaches'
<1>0. HEURE \in Nat /\ PERIODE_HORAIRE \in Nat /\ HEURE <= 2 * PERIODE_HORAIRE
  BY DEF HypothesesTaches
<1>1. \A p \in Processus : travail[p] \notin Alertants /\ travail[p] # "relancer"
  BY DEF Avancer, EnTravail, Alertants
<1>2. /\ travail' = travail /\ alertes' = alertes
      /\ age' = Plafonner(age + 1) /\ retard' = IF retard = -1 THEN -1 ELSE Plafonner(retard + 1)
      /\ \/ faitCeJour' = FALSE /\ relances' = 0
         \/ faitCeJour' = faitCeJour /\ relances' = relances
  BY DEF Avancer
<1>3. TypeTaches'
  <2>1. age' \in 0 .. HEURE /\ retard' \in -1 .. HEURE
    <3>1. age \in 0 .. HEURE /\ retard \in -1 .. HEURE
      BY DEF InvTaches, TypeTaches
    <3>2. \A n \in 0 .. HEURE : Plafonner(n + 1) \in 0 .. HEURE
      BY <1>0 DEF Plafonner
    <3>3. retard = -1 \/ retard \in 0 .. HEURE
      BY <1>0, <3>1
    <3>4. -1 \in -1 .. HEURE /\ \A n \in 0 .. HEURE : n \in -1 .. HEURE
      BY <1>0
    <3>5. CASE retard = -1
      BY <1>2, <3>1, <3>2, <3>4, <3>5
    <3>6. CASE retard # -1
      BY <1>2, <3>1, <3>2, <3>3, <3>4, <3>6
    <3>7. QED
      BY <3>5, <3>6
  <2>2. relances' \in Nat
    BY <1>2 DEF InvTaches, TypeTaches
  <2>3. faitCeJour' \in BOOLEAN
    BY <1>2, Zenon DEF InvTaches, TypeTaches
  <2>4. QED
    BY <1>2, <2>1, <2>2, <2>3 DEF InvTaches, TypeTaches
<1>4. RelanceUnique'
  BY <1>1, <1>2 DEF InvTaches, RelanceUnique
<1>5. CreneauUnique'
  BY <1>1, <1>2 DEF InvTaches, CreneauUnique
<1>6. AlertesDatees'
  BY <1>0, <1>1, <1>2 DEF InvTaches, TypeTaches, AlertesDatees, Plafonner
<1>7. QED
  BY <1>3, <1>4, <1>5, <1>6 DEF InvTaches

LEMMA EchoirInvTaches == ASSUME HypothesesTaches, InvTaches, Echoir PROVE InvTaches'
<1>1. HEURE \in Nat
  BY DEF HypothesesTaches
<1>2. /\ travail' = travail /\ alertes' = alertes /\ age' = age
      /\ faitCeJour' = faitCeJour /\ relances' = relances
      /\ retard' = retard \/ (retard = -1 /\ retard' = 0)
  BY DEF Echoir
<1>3. retard = -1 => alertes = 0
  BY DEF InvTaches, TypeTaches, AlertesDatees
<1>4. QED
  BY <1>1, <1>2, <1>3 DEF InvTaches, TypeTaches, RelanceUnique, CreneauUnique, AlertesDatees

\* The last slot is old: two alerts of this study are then older than the window.
LEMMA TicInvTaches ==
    ASSUME HypothesesTaches, InvTaches, NEW p \in Processus, Tic(p)
    PROVE  InvTaches'
<1>0. /\ HEURE \in Nat /\ PERIODE_HORAIRE \in Nat /\ HEURE <= 2 * PERIODE_HORAIRE
      /\ PERIODE_HORAIRE >= 1
  BY DEF HypothesesTaches
<1>1. /\ faitCeJour' = faitCeJour /\ relances' = relances /\ alertes' = alertes
      /\ retard' = retard /\ travail[p] = "repos"
  BY DEF Tic, Du
<1> USE DEF InvTaches
<1>2. CASE CreneauLibre
  <2>1. age' = 0 /\ age > PERIODE_HORAIRE /\ travail' = [travail EXCEPT ![p] = "expirer"]
    BY <1>2 DEF Tic, AgeApres, CreneauLibre, Passer
  <2>2. TypeTaches'
    BY <1>0, <1>1, <2>1 DEF TypeTaches, Etapes
  <2>3. RelanceUnique'
    BY <1>1, <2>1 DEF TypeTaches, RelanceUnique
  <2>4. \A q \in Processus : travail[q] \notin Alertants
    BY <1>0, <2>1 DEF TypeTaches, CreneauUnique
  <2>5. CreneauUnique'
    BY <2>1, <2>4 DEF TypeTaches, CreneauUnique
  <2>6. AlertesDatees'
    BY <1>0, <1>1, <2>1, <2>4 DEF TypeTaches, AlertesDatees
  <2>7. QED
    BY <2>2, <2>3, <2>5, <2>6
<1>3. CASE ~CreneauLibre
  <2>1. age' = age /\ travail' = [travail EXCEPT ![p] = "quotidien"]
    BY <1>3 DEF Tic, AgeApres, Passer
  <2>2. QED
    BY <1>0, <1>1, <2>1 DEF TypeTaches, RelanceUnique, CreneauUnique, AlertesDatees, Etapes,
                            Alertants
<1>4. QED
  BY <1>2, <1>3

LEMMA AlerterInvTaches ==
    ASSUME HypothesesTaches, InvTaches, NEW p \in Processus, AlerterEtudesEnRetard(p)
    PROVE  InvTaches'
<1>0. HEURE \in Nat /\ PERIODE_HORAIRE \in Nat
  BY DEF HypothesesTaches
<1>1. /\ faitCeJour' = faitCeJour /\ relances' = relances /\ age' = age /\ retard' = retard
      /\ travail[p] = "alerter" /\ travail' = [travail EXCEPT ![p] = "quotidien"]
      /\ alertes' = IF retard \in 0 .. HEURE - 1 THEN alertes + 1 ELSE alertes
  BY DEF AlerterEtudesEnRetard, Passer
<1> USE DEF InvTaches
<1>2. age = 0 /\ \A q \in Processus : travail'[q] \notin Alertants
  BY <1>1 DEF TypeTaches, CreneauUnique, Alertants
<1>3. TypeTaches'
  BY <1>0, <1>1 DEF TypeTaches, Etapes
<1>4. RelanceUnique'
  BY <1>1 DEF TypeTaches, RelanceUnique
<1>5. CreneauUnique'
  BY <1>2 DEF CreneauUnique
<1>6. /\ alertes = 1 => PERIODE_HORAIRE < retard
      /\ alertes = 2 => retard = HEURE
  BY <1>1 DEF AlertesDatees, Alertants
<1>7. AlertesDatees'
  BY <1>0, <1>1, <1>2, <1>6 DEF TypeTaches, AlertesDatees
<1>8. QED
  BY <1>3, <1>4, <1>5, <1>7

LEMMA ReserverInvTaches ==
    ASSUME HypothesesTaches, InvTaches, NEW p \in Processus, ReserverLeJour(p)
    PROVE  InvTaches'
<1>1. /\ relances' = relances /\ age' = age /\ retard' = retard /\ alertes' = alertes
      /\ travail[p] = "quotidien"
      /\ \/ ~faitCeJour /\ faitCeJour' = TRUE /\ travail' = [travail EXCEPT ![p] = "relancer"]
         \/ faitCeJour' = faitCeJour /\ travail' = [travail EXCEPT ![p] = "repos"]
  BY DEF ReserverLeJour, Passer, JourLibre, InvTaches, TypeTaches
<1> USE DEF InvTaches
<1>2. TypeTaches'
  BY <1>1 DEF TypeTaches, Etapes
<1>3. RelanceUnique'
  BY <1>1 DEF TypeTaches, RelanceUnique
<1>4. CreneauUnique'
  BY <1>1 DEF TypeTaches, CreneauUnique, Alertants
<1>5. AlertesDatees'
  BY <1>1 DEF TypeTaches, AlertesDatees, Alertants
<1>6. QED
  BY <1>2, <1>3, <1>4, <1>5

\* The other steps of a process change its place only, and at most send the reminder it was
\* about to send; those that lead to an alert come from the slot.
LEMMA DeplacementInvTaches ==
    ASSUME HypothesesTaches, InvTaches, NEW p \in Processus, NEW e \in Etapes \ {"relancer"},
           e \in Alertants => travail[p] \in Alertants,
           travail' = [travail EXCEPT ![p] = e],
           \/ relances' = relances
           \/ travail[p] = "relancer" /\ relances' = relances + 1,
           faitCeJour' = faitCeJour, age' = age, retard' = retard, alertes' = alertes
    PROVE  InvTaches'
<1> USE DEF InvTaches
<1>1. TypeTaches'
  BY DEF TypeTaches
<1>2. RelanceUnique'
  BY DEF TypeTaches, RelanceUnique
<1>3. CreneauUnique'
  BY DEF TypeTaches, CreneauUnique
<1>4. AlertesDatees'
  BY DEF TypeTaches, AlertesDatees
<1>5. QED
  BY <1>1, <1>2, <1>3, <1>4

\* A reservation of the hour that fails, its row written or not: nobody is between a slot
\* and its alert when the row was free.
LEMMA EchouerReservationInvTaches ==
    ASSUME HypothesesTaches, InvTaches, age' \in {age, AgeApres(age)},
           travail' = travail, faitCeJour' = faitCeJour, relances' = relances,
           retard' = retard, alertes' = alertes
    PROVE  InvTaches'
<1>0. HEURE \in Nat /\ PERIODE_HORAIRE \in Nat
  BY DEF HypothesesTaches
<1> USE DEF InvTaches
<1>1. age \in 0 .. HEURE /\ (age' = age \/ (age' = 0 /\ age > PERIODE_HORAIRE))
  BY DEF AgeApres, CreneauLibre, TypeTaches
<1>2. TypeTaches'
  BY <1>0, <1>1 DEF TypeTaches
<1>3. RelanceUnique'
  BY DEF RelanceUnique
<1>4. CreneauUnique'
  BY <1>0, <1>1 DEF CreneauUnique
<1>5. AlertesDatees'
  <2>1. CASE age' = age
    BY <2>1 DEF AlertesDatees
  <2>2. CASE age' = 0 /\ age > PERIODE_HORAIRE
    BY <1>0, <1>1, <2>2 DEF AlertesDatees, TypeTaches
  <2>3. QED
    BY <1>1, <2>1, <2>2
<1>6. QED
  BY <1>2, <1>3, <1>4, <1>5

\* A reservation of the day that fails, its row written or not.
LEMMA EchouerJourInvTaches ==
    ASSUME HypothesesTaches, InvTaches, NEW p \in Processus, travail[p] = "quotidien",
           travail' = [travail EXCEPT ![p] = "repos"], faitCeJour' \in {faitCeJour, TRUE},
           relances' = relances, age' = age, retard' = retard, alertes' = alertes
    PROVE  InvTaches'
<1> USE DEF InvTaches
<1>1. TypeTaches'
  BY DEF TypeTaches, Etapes
<1>2. RelanceUnique'
  BY DEF TypeTaches, RelanceUnique
<1>3. CreneauUnique'
  BY DEF TypeTaches, CreneauUnique, Alertants
<1>4. AlertesDatees'
  BY DEF TypeTaches, AlertesDatees, Alertants
<1>5. QED
  BY <1>1, <1>2, <1>3, <1>4

LEMMA NextInvTaches ==
    ASSUME HypothesesTaches, InvTaches, [NextTaches]_varsTaches
    PROVE  InvTaches'
<1>1. CASE Avancer
  BY <1>1, AvancerInvTaches
<1>2. CASE Echoir
  BY <1>2, EchoirInvTaches
<1>3. ASSUME NEW p \in Processus, Travailler(p) PROVE InvTaches'
  <2>1. CASE Tic(p)
    BY <2>1, TicInvTaches
  <2>2. CASE ExpirerPropositions(p)
    BY <2>2, DeplacementInvTaches DEF ExpirerPropositions, Passer, Etapes, Alertants
  <2>3. CASE AlerterEtudesEnRetard(p)
    BY <2>3, AlerterInvTaches
  <2>4. CASE ReserverLeJour(p)
    BY <2>4, ReserverInvTaches
  <2>5. CASE RelancerFacturesEchues(p)
    BY <2>5, DeplacementInvTaches DEF RelancerFacturesEchues, Passer, Etapes, Alertants
  <2>6. QED
    BY <1>3, <2>1, <2>2, <2>3, <2>4, <2>5 DEF Travailler
<1>4. ASSUME NEW p \in Processus, EchouerTache(p) PROVE InvTaches'
  <2>1. \/ travail[p] = "expirer" /\ travail' = [travail EXCEPT ![p] = "alerter"]
        \/ travail[p] = "alerter" /\ travail' = [travail EXCEPT ![p] = "quotidien"]
        \/ travail[p] = "relancer" /\ travail' = [travail EXCEPT ![p] = "repos"]
    <3>1. travail[p] \in {"expirer", "alerter", "relancer"}
      BY <1>4 DEF EchouerTache, TacheSuivante
    <3>2. travail' = [travail EXCEPT ![p] = TacheSuivante[travail[p]]]
      BY <1>4 DEF EchouerTache, Passer
    <3>3. /\ TacheSuivante["expirer"] = "alerter" /\ TacheSuivante["alerter"] = "quotidien"
          /\ TacheSuivante["relancer"] = "repos"
      BY DEF TacheSuivante
    <3>4. QED
      BY <3>1, <3>2, <3>3
  <2>2. /\ relances' = relances /\ faitCeJour' = faitCeJour /\ age' = age /\ retard' = retard
        /\ alertes' = alertes
    BY <1>4 DEF EchouerTache
  <2>3. QED
    BY <2>1, <2>2, DeplacementInvTaches DEF Etapes, Alertants
<1>5. ASSUME NEW p \in Processus, EchouerTic(p) PROVE InvTaches'
  <2>1. CASE Du(p)
    BY <1>5, <2>1, EchouerReservationInvTaches DEF EchouerTic, Du
  <2>2. CASE travail[p] = "quotidien"
    BY <1>5, <2>2, EchouerJourInvTaches DEF EchouerTic, Passer, Du
  <2>3. QED
    BY <1>5, <2>1, <2>2 DEF EchouerTic
<1>6. ASSUME NEW p \in Processus, Arreter(p) PROVE InvTaches'
  BY <1>6, DeplacementInvTaches DEF Arreter, Passer, Etapes, Alertants
<1>7. ASSUME NEW p \in Processus, Redemarrer(p) PROVE InvTaches'
  BY <1>7, DeplacementInvTaches DEF Redemarrer, Passer, Etapes, Alertants
<1>8. CASE UNCHANGED varsTaches
  BY <1>8 DEF varsTaches, InvTaches, TypeTaches, RelanceUnique, CreneauUnique, AlertesDatees
<1>9. QED
  BY <1>1, <1>2, <1>3, <1>4, <1>5, <1>6, <1>7, <1>8 DEF NextTaches

\* An overdue invoice is reminded at most once a day and a late study is signalled at most
\* twice, however many processes wake up, stop and start again (tic, reserver), as long as the
\* slot of the hour is longer than half of the window of the alert: 55 minutes of 60.
THEOREM TachesTenues == HypothesesTaches /\ SpecTaches => []TachesUneFois
<1> SUFFICES ASSUME HypothesesTaches PROVE SpecTaches => []TachesUneFois
  OBVIOUS
<1>1. InitTaches => InvTaches
  BY InitInvTaches
<1>2. InvTaches /\ [NextTaches]_varsTaches => InvTaches'
  BY NextInvTaches
<1>3. InvTaches => TachesUneFois
  BY DEF InvTaches, TypeTaches, RelanceUnique, AlertesDatees, TachesUneFois
<1>4. QED
  BY <1>1, <1>2, <1>3, PTL DEF SpecTaches

-----------------------------------------------------------------------------
(* The receptions of files: the counter counts, and the queue holds those  *)
(* that wait, once each.                                                   *)

Recues(e) == {q \in Televersements : e[q] = "recue"}

\* Queue f holds the uploads that wait, each once.
AttenteJuste(f, e) ==
    /\ f \in Seq(Televersements)
    /\ \A i \in 1 .. Len(f) : e[f[i]] = "attend"
    /\ \A i, j \in 1 .. Len(f) : f[i] = f[j] => i = j
    /\ \A q \in Televersements : e[q] = "attend" => \E i \in 1 .. Len(f) : f[i] = q

InvReceptions ==
    /\ envoi \in [Televersements -> {"absent", "attend", "recue", "finie"}]
    /\ receptionsEnCours = Cardinality(Recues(envoi))
    /\ receptionsEnCours <= MAX_RECEPTIONS
    /\ enAttente # <<>> => receptionsEnCours = MAX_RECEPTIONS
    /\ AttenteJuste(enAttente, envoi)

\* What the count becomes when a reception starts, ends, or leaves its place to another.
LEMMA RecuesComptees ==
    ASSUME HypothesesReceptions, NEW e, NEW d
    PROVE  /\ IsFiniteSet(Recues(e)) /\ Cardinality(Recues(e)) \in Nat
           /\ \A q \in Televersements :
                 /\ e[q] # "recue" /\ Recues(d) = Recues(e) \cup {q}
                       => Cardinality(Recues(d)) = Cardinality(Recues(e)) + 1
                 /\ e[q] = "recue" /\ Recues(d) = Recues(e) \ {q}
                       => Cardinality(Recues(d)) = Cardinality(Recues(e)) - 1
<1>1. Recues(e) \in SUBSET Televersements
  BY DEF Recues
<1>2. IsFiniteSet(Recues(e)) /\ Cardinality(Recues(e)) \in Nat
  BY <1>1, FS_Subset, FS_CardinalityType DEF HypothesesReceptions
<1>3. \A q \in Televersements : q \in Recues(e) <=> e[q] = "recue"
  BY DEF Recues
<1>4. QED
  BY <1>2, <1>3, FS_AddElement, FS_RemoveElement

LEMMA InitInvReceptions == ASSUME HypothesesReceptions PROVE InitReceptions => InvReceptions
<1> SUFFICES ASSUME InitReceptions PROVE InvReceptions
  OBVIOUS
<1>1. envoi = [q \in Televersements |-> "absent"] /\ enAttente = <<>> /\ receptionsEnCours = 0
  BY DEF InitReceptions
<1>2. Recues(envoi) = {}
  BY <1>1 DEF Recues
<1>3. Cardinality(Recues(envoi)) = 0
  BY <1>2, FS_EmptySet
<1>4. AttenteJuste(enAttente, envoi)
  BY <1>1, EmptySeq DEF AttenteJuste
<1>5. envoi \in [Televersements -> {"absent", "attend", "recue", "finie"}]
  BY <1>1
<1>6. QED
  BY <1>1, <1>3, <1>4, <1>5 DEF InvReceptions, HypothesesReceptions

LEMMA ArriverInv ==
    ASSUME HypothesesReceptions, InvReceptions, NEW q \in Televersements, Arriver(q)
    PROVE  InvReceptions'
<1> USE DEF InvReceptions
<1>0. enAttente \in Seq(Televersements) /\ Len(enAttente) \in Nat /\ MAX_RECEPTIONS \in Nat
  BY LenProperties DEF AttenteJuste, HypothesesReceptions
<1>1. CASE receptionsEnCours < MAX_RECEPTIONS
  <2>1. /\ receptionsEnCours' = receptionsEnCours + 1 /\ enAttente' = enAttente
        /\ envoi' = [envoi EXCEPT ![q] = "recue"] /\ envoi[q] = "absent"
    BY <1>1 DEF Arriver
  <2>2. Recues(envoi') = Recues(envoi) \cup {q}
    BY <2>1 DEF Recues
  <2>3. Cardinality(Recues(envoi')) = Cardinality(Recues(envoi)) + 1
    BY <2>1, <2>2, RecuesComptees
  <2>4. AttenteJuste(enAttente', envoi')
    BY <2>1 DEF AttenteJuste
  <2>5. enAttente = <<>>
    BY <1>1, RecuesComptees
  <2>6. receptionsEnCours' = Cardinality(Recues(envoi'))
    BY <2>1, <2>3
  <2>7. receptionsEnCours' <= MAX_RECEPTIONS
    BY <1>0, <1>1, <2>1, RecuesComptees
  <2>8. QED
    BY <2>1, <2>4, <2>5, <2>6, <2>7 DEF Recues
<1>2. CASE ~(receptionsEnCours < MAX_RECEPTIONS)
  <2>1. /\ receptionsEnCours' = receptionsEnCours /\ enAttente' = Append(enAttente, q)
        /\ envoi' = [envoi EXCEPT ![q] = "attend"] /\ envoi[q] = "absent"
    BY <1>2 DEF Arriver
  <2>2. Recues(envoi') = Recues(envoi)
    BY <2>1 DEF Recues
  <2>3. receptionsEnCours = MAX_RECEPTIONS
    BY <1>0, <1>2, RecuesComptees
  <2> DEFINE f == Append(enAttente, q)
  <2>4. /\ f \in Seq(Televersements) /\ Len(f) = Len(enAttente) + 1 /\ f[Len(enAttente) + 1] = q
        /\ \A i \in 1 .. Len(enAttente) : f[i] = enAttente[i]
    BY <1>0, AppendProperties
  <2>5. /\ \A i \in 1 .. Len(f) : i \in 1 .. Len(enAttente) \/ i = Len(enAttente) + 1
        /\ \A i \in 1 .. Len(enAttente) : i \in 1 .. Len(f)
        /\ Len(enAttente) + 1 \in 1 .. Len(f)
    BY <1>0, <2>4
  <2>6. \A i \in 1 .. Len(enAttente) : enAttente[i] \in Televersements /\ enAttente[i] # q
    BY <1>0, <2>1, ElementOfSeq DEF AttenteJuste
  <2> HIDE DEF f
  <2>7. AttenteJuste(f, envoi')
    <3>1. \A i \in 1 .. Len(f) : envoi'[f[i]] = "attend"
      BY <2>1, <2>4, <2>5, <2>6 DEF AttenteJuste
    <3>2. \A i, j \in 1 .. Len(f) : f[i] = f[j] => i = j
      BY <2>4, <2>5, <2>6 DEF AttenteJuste
    <3>3. \A t \in Televersements : envoi'[t] = "attend" => \E i \in 1 .. Len(f) : f[i] = t
      <4> SUFFICES ASSUME NEW t \in Televersements, envoi'[t] = "attend"
                   PROVE  \E i \in 1 .. Len(f) : f[i] = t
        OBVIOUS
      <4>1. CASE t = q
        BY <2>4, <2>5, <4>1
      <4>2. CASE t # q
        <5>1. PICK i \in 1 .. Len(enAttente) : enAttente[i] = t
          BY <2>1, <4>2 DEF AttenteJuste
        <5>2. QED
          BY <2>4, <2>5, <5>1
      <4>3. QED
        BY <4>1, <4>2
    <3>4. QED
      BY <2>4, <3>1, <3>2, <3>3 DEF AttenteJuste
  <2>8. AttenteJuste(enAttente', envoi')
    BY <2>1, <2>7 DEF f
  <2>9. QED
    BY <2>1, <2>2, <2>3, <2>8
<1>3. QED
  BY <1>1, <1>2

\* A place is given back: the count falls, or the first that waits takes it.
LEMMA LibererPlaceInv ==
    ASSUME HypothesesReceptions, InvReceptions, NEW q \in Televersements, envoi[q] = "recue",
           NEW e \in {"absent", "finie"}, LibererPlace(q, e)
    PROVE  InvReceptions'
<1> USE DEF InvReceptions
<1>0. enAttente \in Seq(Televersements) /\ Len(enAttente) \in Nat /\ MAX_RECEPTIONS \in Nat
  BY LenProperties DEF AttenteJuste, HypothesesReceptions
<1>1. CASE enAttente = <<>>
  <2>1. /\ receptionsEnCours' = receptionsEnCours - 1 /\ enAttente' = enAttente
        /\ envoi' = [envoi EXCEPT ![q] = e]
    BY <1>1 DEF LibererPlace
  <2>2. Recues(envoi') = Recues(envoi) \ {q}
    BY <2>1 DEF Recues
  <2>3. receptionsEnCours' = Cardinality(Recues(envoi'))
    BY <2>1, <2>2, RecuesComptees
  <2>4. AttenteJuste(enAttente', envoi')
    BY <2>1 DEF AttenteJuste
  <2>5. receptionsEnCours' <= MAX_RECEPTIONS
    BY <1>0, <2>1, RecuesComptees
  <2>6. QED
    BY <1>1, <2>1, <2>3, <2>4, <2>5
<1>2. CASE enAttente # <<>>
  <2> DEFINE h == Head(enAttente)
             f == Tail(enAttente)
  <2>1. /\ receptionsEnCours' = receptionsEnCours /\ enAttente' = f
        /\ envoi' = [envoi EXCEPT ![q] = e, ![h] = "recue"]
    BY <1>2 DEF LibererPlace
  <2>2. /\ f \in Seq(Televersements) /\ Len(f) = Len(enAttente) - 1 /\ h = enAttente[1]
        /\ \A i \in 1 .. Len(f) : f[i] = enAttente[i + 1]
        /\ 1 \in 1 .. Len(enAttente)
    BY <1>0, <1>2, HeadTailProperties, EmptySeq
  <2>3. h \in Televersements /\ envoi[h] = "attend"
    BY <1>0, <2>2, ElementOfSeq DEF AttenteJuste
  <2> HIDE DEF h, f
  <2>4. /\ envoi' \in [Televersements -> {"absent", "attend", "recue", "finie"}]
        /\ envoi'[h] = "recue" /\ envoi'[q] = e /\ h # q
        /\ \A t \in Televersements \ {h, q} : envoi'[t] = envoi[t]
    BY <2>1, <2>3
  <2> DEFINE d == [envoi EXCEPT ![q] = e]
  <2>5. Recues(d) = Recues(envoi) \ {q} /\ d[h] = "attend"
    BY <2>3 DEF Recues
  <2>6. Recues(envoi') = Recues(d) \cup {h}
    BY <2>3, <2>4 DEF Recues
  <2> HIDE DEF d
  <2>7. /\ Cardinality(Recues(d)) = Cardinality(Recues(envoi)) - 1
        /\ Cardinality(Recues(envoi')) = Cardinality(Recues(d)) + 1
        /\ Cardinality(Recues(envoi)) \in Nat
    BY <2>3, <2>5, <2>6, RecuesComptees
  <2>8. receptionsEnCours' = Cardinality(Recues(envoi')) /\ receptionsEnCours' <= MAX_RECEPTIONS
    BY <2>1, <2>7
  <2>9. /\ \A i \in 1 .. Len(f) : i + 1 \in 1 .. Len(enAttente) /\ i + 1 # 1
        /\ \A i \in 1 .. Len(enAttente) : i # 1 => i - 1 \in 1 .. Len(f) /\ (i - 1) + 1 = i
        /\ \A i, j \in 1 .. Len(f) : i + 1 = j + 1 => i = j
    BY <1>0, <2>2
  <2>10. \A i \in 1 .. Len(f) : f[i] \in Televersements /\ f[i] # h /\ f[i] # q
                               /\ envoi[f[i]] = "attend"
    BY <1>0, <2>2, <2>9, ElementOfSeq DEF AttenteJuste
  <2>11. \A i, j \in 1 .. Len(f) : f[i] = f[j] => i = j
    BY <2>2, <2>9 DEF AttenteJuste
  <2>12. ASSUME NEW t \in Televersements, envoi'[t] = "attend"
         PROVE  \E i \in 1 .. Len(f) : f[i] = t
    <3>1. t # h /\ envoi[t] = "attend"
      BY <2>4, <2>12
    <3>2. PICK i \in 1 .. Len(enAttente) : enAttente[i] = t
      BY <3>1 DEF AttenteJuste
    <3>3. i # 1
      BY <2>2, <3>1, <3>2
    <3>4. i - 1 \in 1 .. Len(f) /\ (i - 1) + 1 = i
      BY <2>9, <3>3
    <3>5. f[i - 1] = t
      BY <2>2, <3>2, <3>4
    <3>6. QED
      BY <3>4, <3>5
  <2>13. AttenteJuste(f, envoi')
    BY <2>2, <2>4, <2>10, <2>11, <2>12 DEF AttenteJuste
  <2>14. QED
    BY <1>2, <2>1, <2>4, <2>8, <2>13
<1>3. QED
  BY <1>1, <1>2

\* One that waits leaves the queue, wherever it stands.
LEMMA QuitterInv ==
    ASSUME HypothesesReceptions, InvReceptions, NEW q \in Televersements, Quitter(q)
    PROVE  InvReceptions'
<1> USE DEF InvReceptions
<1>0. enAttente \in Seq(Televersements) /\ Len(enAttente) \in Nat
  BY LenProperties DEF AttenteJuste
<1>1. /\ receptionsEnCours' = receptionsEnCours /\ envoi[q] = "attend"
      /\ envoi' = [envoi EXCEPT ![q] = "absent"]
  BY DEF Quitter
<1>2. PICK k \in 1 .. Len(enAttente) : enAttente[k] = q /\ enAttente' = RemoveAt(enAttente, k)
  BY <1>0, LenProperties DEF Quitter
<1> DEFINE f == RemoveAt(enAttente, k)
           n == Len(enAttente)
           a == SubSeq(enAttente, 1, k - 1)
           b == SubSeq(enAttente, k + 1, n)
<1>3. /\ a \in Seq(Televersements) /\ Len(a) = k - 1
      /\ \A i \in 1 .. k - 1 : a[i] = enAttente[i]
  BY <1>0, SubSeqProperties
<1>4. /\ b \in Seq(Televersements) /\ Len(b) = n - k
      /\ \A i \in 1 .. n - k : b[i] = enAttente[k + i]
  BY <1>0, SubSeqProperties
<1>5. f = a \o b
  BY DEF RemoveAt
<1> HIDE DEF f, a, b
<1>6. /\ f \in Seq(Televersements) /\ Len(f) = n - 1
      /\ \A i \in 1 .. n - 1 : f[i] = IF i < k THEN enAttente[i] ELSE enAttente[i + 1]
  <2>1. /\ f \in Seq(Televersements) /\ Len(f) = (k - 1) + (n - k)
        /\ \A i \in 1 .. (k - 1) + (n - k) : f[i] = IF i <= k - 1 THEN a[i] ELSE b[i - (k - 1)]
    <3>1. /\ a \o b \in Seq(Televersements) /\ Len(a \o b) = Len(a) + Len(b)
          /\ \A i \in 1 .. Len(a) + Len(b) :
                 (a \o b)[i] = IF i <= Len(a) THEN a[i] ELSE b[i - Len(a)]
      BY <1>3, <1>4, ConcatProperties
    <3>2. QED
      BY <1>3, <1>4, <1>5, <3>1
  <2>2. (k - 1) + (n - k) = n - 1 /\ \A i \in 1 .. n - 1 : i <= k - 1 <=> i < k
    BY <1>0
  <2>3. \A i \in 1 .. n - 1 : i < k => f[i] = enAttente[i]
    <3>1. \A i \in 1 .. n - 1 : i < k => i \in 1 .. k - 1
      BY <1>0
    <3>2. QED
      BY <1>3, <2>1, <2>2, <3>1
  <2>4. \A i \in 1 .. n - 1 : ~(i < k) => f[i] = enAttente[i + 1]
    <3>1. \A i \in 1 .. n - 1 : ~(i < k) => /\ i - (k - 1) \in 1 .. n - k
                                            /\ k + (i - (k - 1)) = i + 1
      BY <1>0
    <3>2. QED
      BY <1>4, <2>1, <2>2, <3>1
  <2>5. QED
    BY <2>1, <2>2, <2>3, <2>4
<1>7. Recues(envoi') = Recues(envoi)
  BY <1>1 DEF Recues
<1>8. \A i \in 1 .. n - 1 : \E j \in 1 .. n :
          f[i] = enAttente[j] /\ j # k /\ j = (IF i < k THEN i ELSE i + 1)
  BY <1>0, <1>6
<1>9. \A i \in 1 .. n - 1 : f[i] \in Televersements /\ f[i] # q /\ envoi[f[i]] = "attend"
  BY <1>0, <1>2, <1>8, ElementOfSeq DEF AttenteJuste
<1>10. \A i, j \in 1 .. n - 1 : f[i] = f[j] => i = j
  <2>0. \A u, w \in 1 .. n : enAttente[u] = enAttente[w] => u = w
    BY DEF AttenteJuste
  <2> SUFFICES ASSUME NEW i \in 1 .. n - 1, NEW j \in 1 .. n - 1, f[i] = f[j] PROVE i = j
    OBVIOUS
  <2>1. PICK u \in 1 .. n : f[i] = enAttente[u] /\ u = (IF i < k THEN i ELSE i + 1)
    BY <1>8
  <2>2. PICK w \in 1 .. n : f[j] = enAttente[w] /\ w = (IF j < k THEN j ELSE j + 1)
    BY <1>8
  <2>3. u = w
    BY <2>0, <2>1, <2>2
  <2>4. QED
    BY <1>0, <2>1, <2>2, <2>3
<1>11. ASSUME NEW t \in Televersements, envoi'[t] = "attend"
       PROVE  \E i \in 1 .. n - 1 : f[i] = t
  <2>1. t # q /\ envoi[t] = "attend"
    BY <1>1, <1>11
  <2>2. PICK j \in 1 .. n : enAttente[j] = t
    BY <2>1 DEF AttenteJuste
  <2>3. j # k
    BY <1>2, <2>1, <2>2
  <2>4. CASE j < k
    <3>1. j \in 1 .. n - 1
      BY <1>0, <2>4
    <3>2. QED
      BY <1>6, <2>2, <2>4, <3>1
  <2>5. CASE j > k
    <3>1. j - 1 \in 1 .. n - 1 /\ ~(j - 1 < k) /\ (j - 1) + 1 = j
      BY <1>0, <2>5
    <3>2. QED
      BY <1>6, <2>2, <3>1
  <2>6. QED
    BY <1>0, <2>3, <2>4, <2>5
<1>12. AttenteJuste(f, envoi')
  BY <1>1, <1>6, <1>9, <1>10, <1>11 DEF AttenteJuste
<1>13. AttenteJuste(enAttente', envoi')
  BY <1>2, <1>12 DEF f
<1>14. enAttente # <<>>
  BY <1>0, <1>2, EmptySeq
<1>15. QED
  BY <1>1, <1>7, <1>13, <1>14

LEMMA NextInvReceptions ==
    ASSUME HypothesesReceptions, InvReceptions, [NextReceptions]_varsReceptions
    PROVE  InvReceptions'
<1>1. ASSUME NEW q \in Televersements, Arriver(q) PROVE InvReceptions'
  BY <1>1, ArriverInv
<1>2. ASSUME NEW q \in Televersements, Repondre(q) PROVE InvReceptions'
  BY <1>2, LibererPlaceInv DEF Repondre
<1>3. ASSUME NEW q \in Televersements, Fermer(q) PROVE InvReceptions'
  <2>1. CASE Libere(q)
    <3>1. envoi[q] = "recue" /\ LibererPlace(q, "absent")
      BY <1>3, <2>1 DEF Fermer, Libere
    <3>2. QED
      BY <3>1, LibererPlaceInv
  <2>2. CASE ~Libere(q)
    <3>1. /\ envoi[q] = "finie" /\ envoi' = [envoi EXCEPT ![q] = "absent"]
          /\ enAttente' = enAttente /\ receptionsEnCours' = receptionsEnCours
      BY <1>3, <2>2 DEF Fermer, Libere
    <3>2. Recues(envoi') = Recues(envoi)
      BY <3>1 DEF Recues, InvReceptions
    <3>3. AttenteJuste(enAttente', envoi')
      BY <3>1 DEF AttenteJuste, InvReceptions
    <3>4. QED
      BY <3>1, <3>2, <3>3 DEF InvReceptions
  <2>3. QED
    BY <2>1, <2>2
<1>4. ASSUME NEW q \in Televersements, Quitter(q) PROVE InvReceptions'
  BY <1>4, QuitterInv
<1>5. CASE UNCHANGED varsReceptions
  BY <1>5 DEF varsReceptions, InvReceptions, Recues, AttenteJuste
<1>6. QED
  BY <1>1, <1>2, <1>3, <1>4, <1>5 DEF NextReceptions

\* However answers, closings, departures and delays cross, the counter is the number of
\* receptions in memory, within the limit, and nobody waits while a place is free
\* (limiterReceptions, libererPlace).
THEOREM ReceptionsTenues == HypothesesReceptions /\ SpecReceptions => []ReceptionsBornees
<1> SUFFICES ASSUME HypothesesReceptions PROVE SpecReceptions => []ReceptionsBornees
  OBVIOUS
<1>1. InitReceptions => InvReceptions
  BY InitInvReceptions
<1>2. InvReceptions /\ [NextReceptions]_varsReceptions => InvReceptions'
  BY NextInvReceptions
<1>3. InvReceptions => ReceptionsBornees
  <2> SUFFICES ASSUME InvReceptions PROVE ReceptionsBornees
    OBVIOUS
  <2>1. /\ enAttente \in Seq(Televersements) /\ DOMAIN enAttente = 1 .. Len(enAttente)
        /\ \A i \in 1 .. Len(enAttente) : enAttente[i] \in Televersements
    BY LenProperties, ElementOfSeq DEF InvReceptions, AttenteJuste
  <2>2. ToSet(enAttente) = {q \in Televersements : envoi[q] = "attend"}
    BY <2>1 DEF InvReceptions, AttenteJuste, ToSet
  <2>3. IsInjective(enAttente)
    BY <2>1 DEF InvReceptions, AttenteJuste, IsInjective
  <2>4. QED
    BY <2>2, <2>3 DEF InvReceptions, Recues, ReceptionsBornees
<1>4. QED
  BY <1>1, <1>2, <1>3, PTL DEF SpecReceptions

=============================================================================
