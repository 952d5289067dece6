--------------------------- MODULE WorkTreeProofs ---------------------------
(***************************************************************************)
(* Proofs about WorkTree: types, the shape of the work tree, that the      *)
(* index has no file that is a directory or a conflict as well, what clean *)
(* and reset --hard do, and what the commands that are not told to         *)
(* overwrite keep: read-tree, checkout and merge.                          *)
(***************************************************************************)
EXTENDS WorkTree, LibraryLemmas, TLAPS

-----------------------------------------------------------------------------
(* Types of what the operators on indexes give.                            *)

LEMMA StageSet == Stage = {0, 1, 2, 3}
  BY DEF Stage

LEMMA AtStageType ==
  ASSUME NEW s \in Stage, NEW c \in Content \cup {None}
  PROVE  /\ AtStage(s, c) \in [Stage -> Content \cup {None}]
         /\ AtStage(s, c)[s] = c
         /\ \A x \in Stage \ {s} : AtStage(s, c)[x] = None
  BY DEF AtStage, NoStages

LEMMA NoStagesType ==
  NoStages \in [Stage -> Content \cup {None}] /\ \A s \in Stage : NoStages[s] = None
  BY DEF NoStages

LEMMA SidesType ==
  ASSUME NEW b \in Content \cup {None}, NEW o \in Content \cup {None}, NEW t \in Content \cup {None}
  PROVE  Sides(b, o, t) \in [Stage -> Content \cup {None}] /\ Sides(b, o, t)[0] = None
  BY StageSet DEF Sides

LEMMA FromTreeType ==
  ASSUME NEW t \in TreeType
  PROVE  /\ FromTree(t) \in IndexType
         /\ \A p \in Path : FromTree(t)[p][0] = t[p]
         /\ \A p \in Path, s \in Stage \ {0} : FromTree(t)[p][s] = None
<1>1. 0 \in Stage
  BY StageSet
<1>2. \A p \in Path : t[p] \in Content \cup {None}
  BY DEF TreeType
<1> QED
  BY <1>1, <1>2, AtStageType DEF FromTree, IndexType

LEMMA TopType ==
  ASSUME NEW i \in IndexType, NEW p \in Path, Has(i, p)
  PROVE  Top(i, p) \in Stage /\ i[p][Top(i, p)] # None
<1>1. \E s \in Stage : i[p][s] # None /\ \A t \in Stage : i[p][t] # None => t <= s
  <2>1. CASE i[p][3] # None
    BY <2>1, StageSet
  <2>2. CASE i[p][3] = None /\ i[p][2] # None
    BY <2>2, StageSet
  <2>3. CASE i[p][3] = None /\ i[p][2] = None /\ i[p][1] # None
    BY <2>3, StageSet
  <2>4. CASE i[p][3] = None /\ i[p][2] = None /\ i[p][1] = None
    BY <2>4, StageSet DEF Has
  <2> QED
    BY <2>1, <2>2, <2>3, <2>4
<1> QED
  BY <1>1 DEF Top

LEMMA LastType ==
  ASSUME NEW i \in IndexType, NEW p \in Path
  PROVE  /\ Last(i, p) \in Content \cup {None}
         /\ Last(i, p) # None => Has(i, p)
  BY TopType DEF Last, IndexType

LEMMA KeepType ==
  ASSUME NEW i \in IndexType, NEW p \in Path
  PROVE  Keep(i, p) \in [Stage -> Content \cup {None}]
  BY DEF Keep, IndexType

LEMMA FFIndexType ==
  ASSUME NEW i \in IndexType, NEW h \in TreeType, NEW m \in TreeType, NEW fresh
  PROVE  FFIndex(i, h, m, fresh) \in IndexType
<1>1. 0 \in Stage /\ \A p \in Path : m[p] \in Content \cup {None}
  BY StageSet DEF TreeType
<1> QED
  BY <1>1, AtStageType, NoStagesType, KeepType DEF FFIndex, IndexType

LEMMA ThreeStagesType ==
  ASSUME NEW o \in TreeType, NEW a \in TreeType, NEW b \in TreeType, NEW p \in Path
  PROVE  /\ ThreeStages(o, a, b, p) \in [Stage -> Content \cup {None}]
         /\ ThreeStages(o, a, b, p)[0] # None => \A s \in Stage \ {0} : ThreeStages(o, a, b, p)[s] = None
<1>1. 0 \in Stage /\ {o[p], a[p], b[p]} \subseteq Content \cup {None}
  BY StageSet DEF TreeType
<1>2. ThreeStages(o, a, b, p) \in {AtStage(0, a[p]), AtStage(0, b[p]), Sides(o[p], a[p], b[p])}
  BY DEF ThreeStages
<1>3. \A c \in {a[p], b[p]} : AtStage(0, c) \in [Stage -> Content \cup {None}]
                            /\ \A s \in Stage \ {0} : AtStage(0, c)[s] = None
  BY <1>1, AtStageType
<1>4. Sides(o[p], a[p], b[p]) \in [Stage -> Content \cup {None}] /\ Sides(o[p], a[p], b[p])[0] = None
  BY <1>1, SidesType
<1> QED
  BY <1>2, <1>3, <1>4

LEMMA ThreeIndexType ==
  ASSUME NEW opt, NEW o \in TreeType, NEW a \in TreeType, NEW b \in TreeType
  PROVE  ThreeIndex(opt, o, a, b) \in IndexType
<1>1. \A p \in Path : {o[p], a[p], b[p]} \subseteq Content \cup {None}
  BY DEF TreeType
<1> QED
  BY <1>1, ThreeStagesType, SidesType, NoStagesType DEF ThreeIndex, IndexType

LEMMA AddedType ==
  ASSUME NEW i \in IndexType, NEW p \in Path, NEW c \in Content \cup {None}
  PROVE  Added(i, p, c) \in IndexType
<1>1. 0 \in Stage
  BY StageSet
<1> QED
  BY <1>1, AtStageType, NoStagesType DEF Added, IndexType

LEMMA RemoveFileType ==
  ASSUME NEW i \in IndexType, NEW p \in Path
  PROVE  /\ RemoveFile(i, p) \in IndexType
         /\ \A q \in Path, s \in Stage : RemoveFile(i, p)[q][s] \in {i[q][s], None}
  BY DEF RemoveFile, IndexType

LEMMA UpdatedType ==
  ASSUME NEW F, NEW others, index \in IndexType, wt \in WorkTreeType
  PROVE  Updated(F, others) \in IndexType
<1>1. 0 \in Stage /\ \A p \in Path : IsFile(wt, p) => wt[p] \in Content \cup {None}
  BY StageSet DEF IsFile
<1> QED
  BY <1>1, AtStageType, NoStagesType DEF Updated, IndexType

LEMMA StagedType ==
  ASSUME index \in IndexType
  PROVE  StagedChanges \in TreeType
  BY DEF StagedChanges, TreeType, IndexType

LEMMA TreeOfType ==
  ASSUME NEW i \in IndexType
  PROVE  TreeOf(i) \in TreeType
  BY StageSet DEF TreeOf, TreeType, IndexType

-----------------------------------------------------------------------------
(* Types and shape of the work tree.                                       *)

LEMMA BelowFacts ==
  /\ \A p \in Path : Above(p) \subseteq Path /\ Under(p) \subseteq Path
  /\ \A p, q \in Path : q \in Above(p) <=> p \in Under(q)
  /\ \A p \in Path : p \notin Above(p) /\ p \notin Under(p)
  /\ \A p, q, r \in Path : p \in Above(q) /\ q \in Above(r) => p \in Above(r)
  /\ \A p, q \in Path : ~(p \in Above(q) /\ q \in Above(p))
  BY IndexAssumption DEF Above, Under

LEMMA RemoveAllShaped ==
  ASSUME NEW w \in WorkTreeType, NEW p \in Path
  PROVE  /\ RemoveAll(w, p) \in WorkTreeType
         /\ Shaped(w) => Shaped(RemoveAll(w, p))
<1>1. RemoveAll(w, p) \in WorkTreeType
  BY DEF RemoveAll, WorkTreeType
<1>2. ASSUME Shaped(w), NEW q \in Path, Exists(RemoveAll(w, p), q), NEW d \in Above(q)
      PROVE  IsDir(RemoveAll(w, p), d)
  <2>1. q # p /\ q \notin Under(p) /\ Exists(w, q)
    BY <1>2 DEF RemoveAll, Exists
  <2>2. d \in Path /\ d # p /\ d \notin Under(p)
    BY <2>1, BelowFacts
  <2>3. IsDir(w, d)
    BY <1>2, <2>1 DEF Shaped
  <2> QED
    BY <2>2, <2>3 DEF RemoveAll, IsDir
<1> QED
  BY <1>1, <1>2 DEF Shaped

LEMMA MadeShaped ==
  ASSUME NEW w \in WorkTreeType, NEW p \in Path, NEW c \in Content \cup {None}
  PROVE  /\ Made(w, p, c) \in WorkTreeType
         /\ Shaped(w) => Shaped(Made(w, p, c))
<1>1. Made(w, p, c) \in WorkTreeType
  BY DEF Made, WorkTreeType
<1>2. ASSUME Shaped(w), NEW q \in Path, Exists(Made(w, p, c), q), NEW d \in Above(q)
      PROVE  IsDir(Made(w, p, c), d)
  <2>1. d \in Path /\ d # q
    BY BelowFacts
  <2>2. CASE d \in Above(p)
    <3>1. d # p /\ d \notin Under(p)
      BY <2>1, <2>2, BelowFacts
    <3> QED
      BY <2>1, <2>2, <3>1 DEF Made, IsDir
  <2>3. CASE d \notin Above(p)
    <3>1. q # p /\ q \notin Above(p)
      BY <2>1, <2>3, BelowFacts
    <3>2. q \notin Under(p) /\ Exists(w, q)
      BY <1>2, <3>1 DEF Made, Exists
    <3>3. d # p /\ d \notin Under(p)
      BY <2>1, <3>2, BelowFacts
    <3>4. IsDir(w, d)
      BY <1>2, <3>2 DEF Shaped
    <3> QED
      BY <2>1, <2>3, <3>3, <3>4 DEF Made, IsDir
  <2> QED
    BY <2>2, <2>3
<1> QED
  BY <1>1, <1>2 DEF Shaped

LEMMA CheckoutFileShaped ==
  ASSUME NEW w \in WorkTreeType, NEW p \in Path, NEW c \in Content \cup {None}
  PROVE  /\ CheckoutFile(w, p, c) \in WorkTreeType
         /\ Shaped(w) => Shaped(CheckoutFile(w, p, c))
  BY MadeShaped DEF CheckoutFile

LEMMA RemoveFileCleanShaped ==
  ASSUME NEW w \in WorkTreeType, NEW p \in Path
  PROVE  /\ RemoveFileClean(w, p) \in WorkTreeType
         /\ Shaped(w) => Shaped(RemoveFileClean(w, p))
<1> DEFINE v == RemoveAll(w, p)
           u == RemoveFileClean(w, p)
<1>1. v \in WorkTreeType /\ (Shaped(w) => Shaped(v))
  BY RemoveAllShaped
<1>2. u \in WorkTreeType
  BY <1>1 DEF RemoveFileClean, WorkTreeType
<1>3. ASSUME Shaped(w), NEW q \in Path, Exists(u, q), NEW d \in Above(q)
      PROVE  IsDir(u, d)
  <2>1. Exists(v, q)
    BY <1>3 DEF RemoveFileClean, Exists
  <2>2. d \in Path /\ q \in Under(d) /\ IsDir(v, d)
    BY <1>1, <1>3, <2>1, BelowFacts DEF Shaped
  <2>3. ~\A r \in Under(d) : ~Exists(v, r)
    BY <2>1, <2>2
  <2> QED
    BY <2>2, <2>3 DEF RemoveFileClean, IsDir
<1> QED
  BY <1>1, <1>2, <1>3 DEF Shaped

-----------------------------------------------------------------------------
(* What keeps an index legal.                                              *)

\* No file of a tree is also a directory of it.
LEMMA LegalTree ==
  ASSUME NEW t \in TreeType
  PROVE  Legal(FromTree(t)) <=> \A p, q \in Path : q \in Under(p) => t[p] = None \/ t[q] = None
<1>1. \A p \in Path : ~Unmerged(FromTree(t), p)
  BY FromTreeType DEF Unmerged
<1>2. \A p \in Path : Has(FromTree(t), p) <=> t[p] # None
  BY FromTreeType, StageSet DEF Has
<1> QED
  BY <1>1, <1>2, FromTreeType, BelowFacts DEF Legal

LEMMA LegalThree ==
  ASSUME NEW opt, opt.merge, NEW o \in TreeType, NEW a \in TreeType, NEW b \in TreeType
  PROVE  Legal(ThreeIndex(opt, o, a, b))
<1> DEFINE n == ThreeIndex(opt, o, a, b)
           Clash(p) == \E d \in {p} \cup Above(p) : FileAndDir(o, a, b, d)
<1>1. n \in IndexType
  BY ThreeIndexType
<1>2. \A p \in Path : o[p] \in Content \cup {None} /\ a[p] \in Content \cup {None} /\ b[p] \in Content \cup {None}
  BY DEF TreeType
<1>3. ASSUME NEW p \in Path, Has(n, p)
      PROVE  \E t \in {o, a, b} : t[p] # None
  <2>1. SUFFICES ASSUME o[p] = None, a[p] = None, b[p] = None
                 PROVE  FALSE
    OBVIOUS
  <2>2. n[p] = Sides(o[p], a[p], b[p]) \/ n[p] = ThreeStages(o, a, b, p)
    BY DEF ThreeIndex
  <2>3. n[p] = Sides(None, None, None)
    BY <2>1, <2>2 DEF ThreeStages
  <2>4. \A s \in Stage : n[p][s] = None
    BY <2>3, StageSet DEF Sides
  <2> QED
    BY <1>3, <2>4 DEF Has
<1>4. ASSUME NEW p \in Path, n[p][0] # None
      PROVE  ~Unmerged(n, p) /\ \A q \in Above(p) \cup Under(p) : ~Has(n, q)
  <2>1. ~Clash(p)
    <3>1. ASSUME Clash(p) PROVE n[p] = Sides(o[p], a[p], b[p])
      BY <3>1 DEF ThreeIndex
    <3>2. Sides(o[p], a[p], b[p])[0] = None
      BY <1>2, SidesType
    <3>3. n[p][0] # None
      BY <1>4
    <3> HIDE DEF n, Clash
    <3> QED
      BY <3>1, <3>2, <3>3
  <2>2. n[p] = ThreeStages(o, a, b, p)
    BY <2>1 DEF ThreeIndex
  <2>3. ~Unmerged(n, p)
    BY <1>4, <2>2, ThreeStagesType DEF Unmerged
  <2>4. \E t \in {o, a, b} : t[p] # None
    BY <1>3, <1>4, StageSet DEF Has
  <2>5. ASSUME NEW q \in Under(p), Has(n, q) PROVE FALSE
    <3>1. PICK t \in {o, a, b} : t[q] # None
      BY <1>3, <2>5, BelowFacts
    <3>2. HasDir(t, p)
      BY <3>1 DEF HasDir
    <3> QED
      BY <2>1, <2>4, <3>2 DEF FileAndDir
  <2>6. ASSUME NEW q \in Above(p), Has(n, q) PROVE FALSE
    <3>1. q \in Path /\ p \in Under(q)
      BY BelowFacts
    <3>2. \E t \in {o, a, b} : t[q] # None
      BY <1>3, <2>6, <3>1
    <3>3. \E t \in {o, a, b} : HasDir(t, q)
      BY <2>4, <3>1 DEF HasDir
    <3> QED
      BY <2>1, <3>2, <3>3 DEF FileAndDir
  <2> QED
    BY <2>3, <2>5, <2>6
<1> QED
  BY <1>4 DEF Legal

LEMMA LegalUpdated ==
  ASSUME NEW F, NEW others, index \in IndexType, wt \in WorkTreeType, Shaped(wt), Legal(index)
  PROVE  Legal(Updated(F, others))
<1> DEFINE n == Updated(F, others)
           added == {p \in Listed(F, others) : IsFile(wt, p)}
           Near(p) == Above(p) \cup Under(p)
<1>1. added \subseteq Path /\ \A p \in added : IsFile(wt, p)
  BY DEF Listed, Selected
<1>2. \A p \in added : n[p] = AtStage(0, wt[p])
  BY <1>1 DEF Updated
<1>3. \A p \in Path \ added : n[p] \in {NoStages, index[p]}
                           /\ ((\E q \in added : p \in Near(q)) => n[p] = NoStages)
  BY DEF Updated
<1>4. \A p, q \in added : q \notin Near(p)
  BY <1>1, BelowFacts, IndexAssumption DEF Shaped, Exists, IsDir, IsFile
<1>5. \A p \in Path : n[p] = NoStages => ~Has(n, p)
  BY NoStagesType DEF Has
<1>6. ASSUME NEW p \in Path, n[p][0] # None
      PROVE  ~Unmerged(n, p) /\ \A q \in Near(p) : ~Has(n, q)
  <2>1. CASE p \in added
    <3>1. ~Unmerged(n, p)
      BY <1>1, <1>2, <2>1, AtStageType, StageSet DEF Unmerged, IsFile
    <3>2. ASSUME NEW q \in Near(p) PROVE ~Has(n, q)
      <4>1. q \in Path \ added
        BY <1>4, <2>1, BelowFacts
      <4> QED
        BY <1>3, <1>5, <2>1, <4>1
    <3> QED
      BY <3>1, <3>2
  <2>2. CASE p \notin added
    <3>1. n[p] = index[p] /\ index[p][0] # None /\ ~\E q \in added : p \in Near(q)
      BY <1>3, <1>6, <2>2, NoStagesType, StageSet
    <3>2. ~Unmerged(n, p)
      BY <3>1 DEF Legal, Unmerged
    <3>3. ASSUME NEW q \in Near(p) PROVE ~Has(n, q)
      <4>1. q \in Path /\ p \in Near(q)
        BY BelowFacts
      <4>2. q \notin added /\ ~Has(index, q)
        BY <3>1, <4>1 DEF Legal
      <4> QED
        BY <1>3, <1>5, <4>1, <4>2 DEF Has
    <3> QED
      BY <3>2, <3>3
  <2> QED
    BY <2>1, <2>2
<1> QED
  BY <1>6 DEF Legal

LEMMA LegalRemoveFile ==
  ASSUME NEW i \in IndexType, NEW p \in Path, Legal(i)
  PROVE  Legal(RemoveFile(i, p))
<1>1. \A q \in Path : Has(RemoveFile(i, p), q) => Has(i, q)
  BY RemoveFileType DEF Has
<1>2. \A q \in Path : Unmerged(RemoveFile(i, p), q) => Unmerged(i, q)
  BY RemoveFileType, StageSet DEF Unmerged
<1>3. \A q \in Path : RemoveFile(i, p)[q][0] # None => i[q][0] # None
  BY RemoveFileType, StageSet
<1> QED
  BY <1>1, <1>2, <1>3, BelowFacts DEF Legal

LEMMA LegalAdded ==
  ASSUME NEW i \in IndexType, NEW p \in Path, NEW c \in Content \cup {None}, Legal(i)
  PROVE  Legal(Added(i, p, c))
<1> DEFINE n == Added(i, p, c)
           Near(q) == Above(q) \cup Under(q)
<1>1. n[p] = AtStage(0, c)
  BY BelowFacts DEF Added
<1>2. \A q \in Path : q \in Near(p) => q # p /\ ~Has(n, q)
  BY BelowFacts, NoStagesType DEF Added, Has
<1>3. \A q \in Path : q # p /\ q \notin Near(p) => n[q] = i[q]
  BY DEF Added
<1>4. ASSUME NEW q \in Path, n[q][0] # None
      PROVE  ~Unmerged(n, q) /\ \A r \in Near(q) : ~Has(n, r)
  <2>1. CASE q = p
    <3>1. ~Unmerged(n, q)
      BY <1>1, <2>1, AtStageType, StageSet DEF Unmerged
    <3> QED
      BY <1>2, <2>1, <3>1, BelowFacts
  <2>2. CASE q # p
    <3>1. q \notin Near(p)
      BY <1>2, <1>4, StageSet DEF Has
    <3>2. n[q] = i[q]
      BY <1>3, <2>2, <3>1
    <3>3. ~Unmerged(n, q) /\ \A r \in Near(q) : ~Has(i, r)
      BY <1>4, <3>2 DEF Legal, Unmerged
    <3>4. ASSUME NEW r \in Near(q) PROVE ~Has(n, r)
      <4>1. r \in Path /\ r # p
        BY <3>1, BelowFacts
      <4> QED
        BY <1>2, <1>3, <3>3, <4>1 DEF Has
    <3> QED
      BY <3>3, <3>4
  <2> QED
    BY <2>1, <2>2
<1> QED
  BY <1>4 DEF Legal

LEMMA LegalUnstaged ==
  ASSUME NEW put \in SUBSET Path, NEW gone \in SUBSET Path, index \in IndexType, head \in TreeType,
         Legal(index), Legal(FromTree(head)),
         \A p \in put : head[p] # None,
         \A p \in put : \A q \in (Above(p) \ gone) \cup Under(p) : ~Has(index, q),
         NEW n, n = [p \in Path |-> IF p \in put THEN AtStage(0, head[p])
                                   ELSE IF p \in gone THEN NoStages ELSE index[p]]
  PROVE  n \in IndexType /\ Legal(n)
<1> DEFINE Near(p) == Above(p) \cup Under(p)
<1>1. \A p \in Path : head[p] \in Content \cup {None}
  BY DEF TreeType
<1>2. n \in IndexType
  BY <1>1, AtStageType, NoStagesType, StageSet DEF IndexType
<1>3. ASSUME NEW p \in put PROVE n[p] = AtStage(0, head[p]) /\ ~Unmerged(n, p)
  <2>1. n[p] = AtStage(0, head[p]) /\ p \in Path
    OBVIOUS
  <2> QED
    BY <1>1, <2>1, AtStageType, StageSet DEF Unmerged
<1>4. \A p \in Path \ put : n[p] \in {index[p], NoStages} /\ (p \in gone => n[p] = NoStages)
  OBVIOUS
<1>5. \A p \in Path \ put : /\ Has(n, p) => (Has(index, p) /\ p \notin gone)
                            /\ Unmerged(n, p) => Unmerged(index, p)
                            /\ n[p][0] # None => index[p][0] # None
  BY <1>4, NoStagesType, StageSet DEF Has, Unmerged
<1>6. \A p, q \in put : q \notin Near(p)
  BY LegalTree, BelowFacts
<1>7. ASSUME NEW p \in put, NEW q \in Near(p) PROVE q \in Path \ put /\ p \in Near(q) /\ ~Has(n, q)
  <2>1. q \in Path \ put /\ p \in Near(q)
    BY <1>6, BelowFacts
  <2>2. q \in gone \/ ~Has(index, q)
    OBVIOUS
  <2> HIDE DEF Near
  <2> QED
    BY <1>5, <2>1, <2>2
<1>8. ASSUME NEW p \in Path, n[p][0] # None
      PROVE  ~Unmerged(n, p) /\ \A q \in Near(p) : ~Has(n, q)
  <2>1. CASE p \in put
    BY <1>3, <1>7, <2>1
  <2>2. CASE p \notin put
    <3>1. index[p][0] # None /\ Has(n, p) /\ Has(index, p) /\ p \notin gone
      <4>1. Has(n, p)
        BY <1>8, StageSet DEF Has
      <4> HIDE DEF Near
      <4> QED
        BY <1>5, <1>8, <2>2, <4>1
    <3>2. ~Unmerged(n, p) /\ \A q \in Near(p) : ~Has(index, q)
      BY <1>5, <2>2, <3>1 DEF Legal
    <3>3. ASSUME NEW q \in Near(p) PROVE ~Has(n, q)
      <4>1. q \in Path /\ p \in Near(q)
        BY BelowFacts
      <4>2. q \notin put
        BY <1>7, <3>1, <4>1
      <4> QED
        BY <1>5, <3>2, <4>1, <4>2
    <3> QED
      BY <3>2, <3>3
  <2> QED
    BY <2>1, <2>2
<1> QED
  BY <1>2, <1>8 DEF Legal

\* What is in a legal index makes a legal tree.
LEMMA LegalTreeOf ==
  ASSUME NEW i \in IndexType, Legal(i)
  PROVE  Legal(FromTree(TreeOf(i)))
<1>1. TreeOf(i) \in TreeType /\ \A p \in Path : TreeOf(i)[p] = i[p][0]
  BY TreeOfType DEF TreeOf
<1>2. \A p \in Path : i[p][0] # None => Has(i, p)
  BY StageSet DEF Has
<1> QED
  BY <1>1, <1>2, LegalTree DEF Legal

LEMMA LegalNoTree == NoTree \in TreeType /\ Legal(FromTree(NoTree)) /\ FromTree(NoTree) \in IndexType
<1>1. NoTree \in TreeType /\ \A p \in Path : NoTree[p] = None
  BY DEF NoTree, TreeType
<1> QED
  BY <1>1, LegalTree, FromTreeType

-----------------------------------------------------------------------------
(* The invariant.  An index is only known to be whole and legal before the *)
(* first command, or when reset writes it again: merge-ff may write one    *)
(* that is not, and a killed command leaves one that is torn.              *)

LegalInv ==
  /\ Shaped(wt)
  /\ Legal(FromTree(head))
  /\ Legal(FromTree(run.target))
  /\ run.op = "none" => run.plan = <<>>
  /\ run.op = "none" /\ run.outcome # "killed" => index # Torn /\ Legal(index)
  /\ run.op \notin {"none", "merge-ff"} => Legal(run.new)

IInv == TypeOK /\ LegalInv

-----------------------------------------------------------------------------
(* A command starts.                                                       *)

LEMMA WorkType ==
  ASSUME NEW phase, NEW r, r.files \subseteq Path, NEW i, NEW w
  PROVE  Work(phase, r, i, w) \subseteq Path
  BY DEF Work, Killed, Conflicted

LEMMA OnwardType ==
  ASSUME NEW r \in RunType, NEW plan \in Seq(Phases), NEW i, NEW w
  PROVE  /\ Onward(r, plan, i, w) \in RunType
         /\ Onward(r, plan, i, w).op = r.op
         /\ Onward(r, plan, i, w).new = r.new
         /\ Onward(r, plan, i, w).target = r.target
         /\ Onward(r, plan, i, w).plan = plan
<1>1. Work(Head(plan), r, i, w) \subseteq Path
  BY WorkType DEF RunType
<1> QED
  BY <1>1 DEF Onward, RunType

LEMMA OptionTypes ==
  Plain \in Options /\ MergeUpdate \in Options /\ ResetUpdate \in Options /\ MergeUpdate.merge
  BY DEF Plain, MergeUpdate, ResetUpdate, Options

LEMMA IdleType == Idle \in RunType
<1>1. FromTree(NoTree) \in IndexType /\ NoTree \in TreeType
  BY LegalNoTree
<1>2. <<>> \in Seq(Phases)
  OBVIOUS
<1> QED
  BY <1>1, <1>2, OptionTypes DEF Idle, RunType

\* All the steps that start a command: what is new keeps its promises.
LEMMA StartInv ==
  ASSUME IInv, NEW r \in RunType, r.op \in OpNames, Start(r),
         Legal(FromTree(r.target)), r.op # "merge-ff" => Legal(r.new)
  PROVE  IInv'
<1>1. /\ run' \in RunType /\ run'.op = r.op /\ run'.new = r.new /\ run'.target = r.target
      /\ UNCHANGED <<index, wt, head>>
      /\ was' = [index |-> index, wt |-> wt, head |-> head]
  BY OnwardType DEF Start, RunType
<1>2. TypeOK'
  BY <1>1 DEF IInv, TypeOK
<1>3. run'.op # "none"
  BY <1>1 DEF OpNames
<1>4. LegalInv'
  BY <1>1, <1>3 DEF IInv, LegalInv
<1> QED
  BY <1>2, <1>4 DEF IInv

LEMMA BeginInv ==
  ASSUME IInv, NEW op \in OpNames, NEW opt \in Options, NEW n \in IndexType, NEW target \in TreeType,
         NEW base \in TreeType, NEW staged \in TreeType, NEW plan \in Seq(Phases),
         Begin(op, opt, n, target, base, staged, plan),
         Legal(FromTree(target)), op # "merge-ff" => Legal(n)
  PROVE  IInv'
<1> DEFINE files == IF Acts(opt) THEN ToCheckOut(opt, index, n, wt) ELSE {}
           r == [Command(op) EXCEPT !.opt = opt, !.new = n, !.target = target, !.base = base,
                   !.staged = staged, !.plan = plan, !.files = files]
<1>1. files \subseteq Path
  BY DEF ToCheckOut
<1>2. r \in RunType /\ r.op = op /\ r.target = target /\ r.new = n
  BY <1>1, IdleType DEF Command, RunType
<1>3. Start(r)
  BY DEF Begin
<1> QED
  BY <1>2, <1>3, StartInv

LEMMA PlanType ==
  /\ <<>> \in Seq(Phases) /\ <<"move">> \in Seq(Phases) /\ <<"fail">> \in Seq(Phases)
  /\ <<"open", "save">> \in Seq(Phases)
  /\ \A opt : ReadTreePlan(opt) \in Seq(Phases)
  /\ \A opt, n : \A first, rest \in Seq(Phases) : PlanOf(opt, n, first, rest) \in Seq(Phases)
<1>1. /\ <<>> \in Seq(Phases) /\ <<"move">> \in Seq(Phases) /\ <<"fail">> \in Seq(Phases)
      /\ <<"open", "save">> \in Seq(Phases) /\ <<"drop">> \in Seq(Phases)
      /\ <<"kill", "write", "prune">> \in Seq(Phases)
  BY DEF Phases
<1>2. ASSUME NEW s \in Seq(Phases), NEW t \in Seq(Phases) PROVE s \o t \in Seq(Phases)
  OBVIOUS
<1>3. ASSUME NEW opt PROVE ReadTreePlan(opt) \in Seq(Phases)
  BY <1>1, <1>2 DEF ReadTreePlan
<1>4. ASSUME NEW opt, NEW n, NEW first \in Seq(Phases), NEW rest \in Seq(Phases)
      PROVE  PlanOf(opt, n, first, rest) \in Seq(Phases)
  BY <1>1, <1>2, <1>3 DEF PlanOf
<1> QED
  BY <1>1, <1>3, <1>4

LEMMA TreeFacts ==
  ASSUME NEW t \in Trees
  PROVE  t \in TreeType /\ FromTree(t) \in IndexType /\ Legal(FromTree(t))
  BY WorkTreeAssumption, FromTreeType

\* Only a reset starts on an index that may be torn or not legal.
LEMMA ReadyLegal ==
  ASSUME IInv, NEW op, Ready(op), op \notin {"reset-soft", "reset-mixed", "reset-hard"}
  PROVE  index \in IndexType /\ Legal(index)
  BY WorkTreeAssumption DEF Ready, IInv, TypeOK, LegalInv

LEMMA StartingInv ==
  ASSUME IInv, NEW op \in OpNames, NEW opt \in Options, NEW t \in Trees,
         NEW first \in Seq(Phases), NEW rest \in Seq(Phases), Starting(op, opt, t, first, rest)
  PROVE  IInv'
  BY TreeFacts, LegalNoTree, PlanType, BeginInv DEF Starting
LEMMA OneTreeInv ==
  ASSUME IInv, NEW opt \in Options, NEW t \in Trees, OneTree(opt, t)
  PROVE  IInv'
<1> DEFINE plan == IF opt.update \/ opt.reset THEN <<"fail">> ELSE <<"open", "save">>
<1>1. plan \in Seq(Phases) /\ "read-tree" \in OpNames
  BY PlanType DEF OpNames
<1>2. CASE index = Torn
  BY <1>1, <1>2, TreeFacts, LegalNoTree, OptionTypes, BeginInv DEF OneTree
<1>3. CASE index # Torn
  BY <1>1, <1>3, PlanType, StartingInv DEF OneTree
<1> QED
  BY <1>2, <1>3

LEMMA CheckoutCommitInv ==
  ASSUME IInv, NEW t \in Trees, NEW force \in BOOLEAN, CheckoutCommit(t, force)
  PROVE  IInv'
<1> DEFINE opt == IF force THEN ResetUpdate ELSE MergeUpdate
           rest == <<"put", "open", "save", "move">>
<1>1. opt \in Options /\ rest \in Seq(Phases) /\ "checkout" \in OpNames
  BY OptionTypes DEF OpNames, Phases
<1>2. StagedChanges \in TreeType
  BY ReadyLegal, StagedType DEF CheckoutCommit
<1>3. PlanOf(opt, FromTree(t), <<>>, rest) \in Seq(Phases)
  BY <1>1, PlanType
<1>4. Begin("checkout", opt, FromTree(t), t, NoTree, StagedChanges, PlanOf(opt, FromTree(t), <<>>, rest))
  BY DEF CheckoutCommit
<1> HIDE DEF opt, rest
<1> QED
  BY <1>1, <1>2, <1>3, <1>4, TreeFacts, LegalNoTree, BeginInv

LEMMA CheckoutFilesInv ==
  ASSUME IInv, NEW t \in Trees, NEW F, CheckoutFiles(t, F)
  PROVE  IInv'
<1> DEFINE files == {p \in Selected(F) : t[p] # None}
           plan == <<"kill", "write", "open", "save">>
           r == [Command("checkout-paths") EXCEPT !.new = FromTree(t), !.target = t,
                   !.files = files, !.plan = plan]
<1>1. files \subseteq Path /\ plan \in Seq(Phases) /\ "checkout-paths" \in OpNames
  BY DEF Selected, Phases, OpNames
<1>2. Start(r)
  BY DEF CheckoutFiles
<1>3. r \in RunType /\ r.op = "checkout-paths" /\ r.target = t /\ r.new = FromTree(t)
  BY <1>1, TreeFacts, IdleType DEF Command, RunType
<1> QED
  BY <1>1, <1>2, <1>3, TreeFacts, StartInv

LEMMA ResetModeInv ==
  ASSUME IInv, NEW mode \in {"reset-soft", "reset-mixed", "reset-hard"}, NEW t \in Trees, ResetMode(mode, t)
  PROVE  IInv'
<1> DEFINE rest == IF mode = "reset-hard" THEN <<"kill", "writeAll", "open", "save">> ELSE <<>>
<1>1. /\ <<"kill", "writeAll", "open", "save">> \in Seq(Phases) /\ <<"move", "fail">> \in Seq(Phases)
      /\ mode \in OpNames /\ mode # "merge-ff"
  BY DEF Phases, OpNames
<1>9. rest \in Seq(Phases)
  BY <1>1, PlanType
<1>2. \A plan \in Seq(Phases) : Begin(mode, Plain, FromTree(t), t, NoTree, NoTree, plan) => IInv'
  BY <1>1, TreeFacts, LegalNoTree, OptionTypes, BeginInv
<1>3. Starting(mode, ResetUpdate, t, <<"move">>, rest) => IInv'
  BY <1>1, <1>9, PlanType, OptionTypes, StartingInv
<1> QED
  BY <1>1, <1>2, <1>3, PlanType DEF ResetMode

LEMMA MergeForwardInv ==
  ASSUME IInv, NEW t \in Trees, MergeForward(t)
  PROVE  IInv'
<1>1. PICK fresh \in {FALSE} \cup {\A p \in Path : ~Has(index, p)} :
        LET n == FFIndex(index, head, t, fresh)
        IN Begin("merge-ff", MergeUpdate, n, t, head, NoTree,
                 IF FFBlocked(index, head, t, wt, fresh) THEN <<"fail">>
                 ELSE PlanOf(MergeUpdate, n, <<>>, <<"move">>))
  BY DEF MergeForward, FastForward
<1> DEFINE n == FFIndex(index, head, t, fresh)
           plan == IF FFBlocked(index, head, t, wt, fresh) THEN <<"fail">>
                   ELSE PlanOf(MergeUpdate, n, <<>>, <<"move">>)
<1>2. index \in IndexType /\ head \in TreeType
  BY ReadyLegal DEF MergeForward, FastForward, IInv, TypeOK
<1>3. n \in IndexType
  BY <1>2, TreeFacts, FFIndexType
<1>4. plan \in Seq(Phases) /\ "merge-ff" \in OpNames
  BY PlanType DEF OpNames
<1>5. Begin("merge-ff", MergeUpdate, n, t, head, NoTree, plan)
  BY <1>1
<1> HIDE DEF n, plan
<1> QED
  BY <1>2, <1>3, <1>4, <1>5, TreeFacts, LegalNoTree, OptionTypes, BeginInv

LEMMA MergeTreesInv ==
  ASSUME IInv, NEW base \in Trees, NEW t \in Trees, MergeTrees(base, t)
  PROVE  IInv'
<1> DEFINE n == ThreeIndex(MergeUpdate, base, head, t)
           plan == IF ThreeBlocked(index, base, head, t, wt) THEN <<"fail">>
                   ELSE PlanOf(MergeUpdate, n, <<>>, <<"mergeFile">>)
<1>1. head \in TreeType /\ base \in TreeType /\ t \in TreeType /\ Legal(FromTree(t))
  BY TreeFacts DEF IInv, TypeOK
<1>2. n \in IndexType /\ Legal(n)
  BY <1>1, OptionTypes, ThreeIndexType, LegalThree
<1>9. <<"mergeFile">> \in Seq(Phases) /\ "merge" \in OpNames
  BY DEF OpNames, Phases
<1>3. plan \in Seq(Phases)
  BY <1>9, PlanType
<1>4. Begin("merge", MergeUpdate, n, t, base, NoTree, plan)
  BY DEF MergeTrees, ThreeWay
<1> HIDE DEF n, plan
<1> QED
  BY <1>1, <1>2, <1>3, <1>4, <1>9, LegalNoTree, OptionTypes, BeginInv

LEMMA CheckoutIndexInv ==
  ASSUME IInv, NEW force \in BOOLEAN, CheckoutIndex(force)
  PROVE  IInv'
<1>1. index \in IndexType /\ Legal(index)
  BY ReadyLegal DEF CheckoutIndex
<1> DEFINE differ == {p \in Path : \E s \in Stage : index[p][s] # None /\ (force \/ index[p][s] # wt[p])}
           files == {p \in differ : Unmerged(index, p) \/ force \/ ~Exists(wt, p)}
           plan == IF force THEN <<"kill", "write">>
                   ELSE IF Killed(index, wt) # {} THEN <<"fail">> ELSE <<"write">>
           r == [Command("checkout-index") EXCEPT !.new = index, !.files = files, !.plan = plan]
<1>9. <<"kill", "write">> \in Seq(Phases) /\ <<"write">> \in Seq(Phases) /\ "checkout-index" \in OpNames
  BY DEF Phases, OpNames
<1>2. files \subseteq Path /\ plan \in Seq(Phases)
  BY <1>9, PlanType
<1>3. Start(r)
  BY DEF CheckoutIndex
<1>4. r \in RunType /\ r.op = "checkout-index" /\ r.target = NoTree /\ r.new = index
  BY <1>1, <1>2, <1>9, IdleType DEF Command, RunType, Idle
<1> QED
  BY <1>1, <1>2, <1>3, <1>9, <1>4, LegalNoTree, StartInv

LEMMA AddInv ==
  ASSUME IInv, NEW F, Add(F)
  PROVE  IInv'
<1>1. index \in IndexType /\ Legal(index) /\ wt \in WorkTreeType /\ Shaped(wt)
  BY ReadyLegal DEF Add, Begin, IInv, TypeOK, LegalInv
<1>2. Updated(F, TRUE) \in IndexType /\ Legal(Updated(F, TRUE)) /\ "add" \in OpNames
  BY <1>1, UpdatedType, LegalUpdated DEF OpNames
<1> QED
  BY <1>2, LegalNoTree, OptionTypes, PlanType, BeginInv DEF Add

LEMMA RmInv ==
  ASSUME IInv, NEW F \in (SUBSET Path) \ {{}}, NEW force \in BOOLEAN, NEW cached \in BOOLEAN, Rm(F, force, cached)
  PROVE  IInv'
<1> DEFINE tracked == {p \in Selected(F) : Has(index, p)}
           first == CHOOSE p \in tracked : \A q \in tracked \ {p} : <<p, q>> \in Before
           plan == IF cached THEN <<>> ELSE <<"unlink", "open", "save">>
           r == [Command("rm") EXCEPT !.new = RemoveFile(index, first), !.files = {first}, !.plan = plan]
<1>1. index \in IndexType /\ Legal(index)
  BY ReadyLegal DEF Rm
<1>2. Start(r)
  BY DEF Rm
<1>9. <<"unlink", "open", "save">> \in Seq(Phases) /\ "rm" \in OpNames
  BY DEF Phases, OpNames
<1>3. plan \in Seq(Phases)
  BY <1>9, PlanType
<1>4. first \in Path
  <2>1. \E f \in F : \E p \in Selected({f}) : Has(index, p)
    <3>1. F # {}
      OBVIOUS
    <3>2. PICK f \in F : TRUE
      BY <3>1
    <3> QED
      BY <3>2 DEF Rm
  <2>2. tracked # {}
    BY <2>1 DEF Selected
  <2>3. tracked \subseteq Path
    BY DEF Selected
  <2> HIDE DEF tracked
  <2>4. \E p \in tracked : \A q \in tracked \ {p} : <<p, q>> \in Before
    BY <2>2, <2>3, WorkTreeAssumption
  <2> QED
    BY <2>3, <2>4
<1>5. RemoveFile(index, first) \in IndexType /\ Legal(RemoveFile(index, first))
  BY <1>1, <1>4, RemoveFileType, LegalRemoveFile
<1>6. r \in RunType /\ r.op = "rm" /\ r.target = NoTree /\ r.new = RemoveFile(index, first)
  BY <1>3, <1>4, <1>5, <1>9, IdleType DEF Command, RunType, Idle
<1> QED
  BY <1>2, <1>3, <1>5, <1>6, <1>9, LegalNoTree, StartInv

LEMMA CleanInv ==
  ASSUME IInv, NEW F, NEW dirs, Clean(F, dirs)
  PROVE  IInv'
<1> DEFINE files == Cleaned(F, dirs)
           plan == <<"clean">>
           r == [Command("clean") EXCEPT !.files = files, !.plan = plan]
<1>1. files \subseteq Path /\ plan \in Seq(Phases) /\ "clean" \in OpNames
  BY DEF Cleaned, Selected, Phases, OpNames
<1>2. Start(r)
  BY DEF Clean
<1>3. r \in RunType /\ r.op = "clean" /\ r.target = NoTree /\ r.new = FromTree(NoTree)
  BY <1>1, IdleType DEF Command, RunType, Idle
<1> QED
  BY <1>1, <1>2, <1>3, LegalNoTree, StartInv

LEMMA UnstageInv ==
  ASSUME IInv, NEW F, Unstage(F)
  PROVE  IInv'
<1> DEFINE named(p) == IF p \in Selected(F) THEN head[p] ELSE None
           differs == {p \in Path : \E s \in Stage : index[p][s] # None /\ index[p][s] # named(p)}
           put == {p \in differs : named(p) # None}
           gone == {p \in differs \cap F : named(p) = None}
           clash == \E p \in put : \E q \in (Above(p) \ gone) \cup Under(p) : Has(index, q)
           new == [p \in Path |-> IF p \in put THEN AtStage(0, head[p])
                                  ELSE IF p \in gone THEN NoStages ELSE index[p]]
<1>1. index \in IndexType /\ Legal(index) /\ head \in TreeType /\ Legal(FromTree(head))
  BY ReadyLegal DEF Unstage, IInv, TypeOK, LegalInv
<1>2. put \in SUBSET Path /\ gone \in SUBSET Path /\ \A p \in put : head[p] # None
  OBVIOUS
<1>3. ~clash => new \in IndexType /\ Legal(new)
  <2> SUFFICES ASSUME ~clash PROVE new \in IndexType /\ Legal(new)
    OBVIOUS
  <2>1. \A p \in put : \A q \in (Above(p) \ gone) \cup Under(p) : ~Has(index, q)
    OBVIOUS
  <2>2. new = [p \in Path |-> IF p \in put THEN AtStage(0, head[p])
                              ELSE IF p \in gone THEN NoStages ELSE index[p]]
    OBVIOUS
  <2> HIDE DEF put, gone, new
  <2> QED
    BY <1>1, <1>2, <2>1, <2>2, LegalUnstaged
<1>4. \/ Begin("unstage", Plain, index, NoTree, NoTree, NoTree, <<"fail">>)
      \/ ~clash /\ Begin("unstage", Plain, new, NoTree, NoTree, NoTree, <<"open", "save">>)
  BY DEF Unstage
<1>5. "unstage" \in OpNames
  BY DEF OpNames
<1> HIDE DEF clash, new
<1> QED
  BY <1>1, <1>3, <1>4, <1>5, LegalNoTree, OptionTypes, PlanType, BeginInv

LEMMA CommitInv ==
  ASSUME IInv, NEW all \in BOOLEAN, Commit(all)
  PROVE  IInv'
<1> DEFINE n == IF all THEN Updated(Path, FALSE) ELSE index
           plan == (IF all THEN <<"open", "save">> ELSE <<>>)
                   \o (IF Conflicted(n) # {} \/ TreeOf(n) = head THEN <<"fail">> ELSE <<"move">>)
<1>1. index \in IndexType /\ Legal(index) /\ wt \in WorkTreeType /\ Shaped(wt)
  BY ReadyLegal DEF Commit, Begin, IInv, TypeOK, LegalInv
<1>2. n \in IndexType /\ Legal(n)
  BY <1>1, UpdatedType, LegalUpdated
<1>3. TreeOf(n) \in TreeType /\ Legal(FromTree(TreeOf(n)))
  BY <1>2, TreeOfType, LegalTreeOf
<1>4. plan \in Seq(Phases) /\ "commit" \in OpNames
  <2>1. \A u, v \in Seq(Phases) : u \o v \in Seq(Phases)
    OBVIOUS
  <2> QED
    BY <2>1, PlanType DEF OpNames
<1>5. Begin("commit", Plain, n, TreeOf(n), NoTree, NoTree, plan)
  BY DEF Commit
<1> HIDE DEF n, plan
<1> QED
  BY <1>2, <1>3, <1>4, <1>5, LegalNoTree, OptionTypes, BeginInv

LEMMA CommitFileInv ==
  ASSUME IInv, NEW f \in Path, CommitFile(f)
  PROVE  IInv'
<1> DEFINE gone == {p \in Selected({f}) : IF IsDir(wt, f) THEN Has(index, p) ELSE p = f}
           n == [p \in Path |-> IF IsFile(wt, f) /\ p = f THEN wt[f]
                                ELSE IF ~IsFile(wt, f) /\ p \in gone THEN None ELSE head[p]]
           clash == IsFile(wt, f) /\ \E q \in Above(f) \cup Under(f) : head[q] # None
<1>1. index \in IndexType /\ Legal(index) /\ head \in TreeType /\ Legal(FromTree(head))
  BY ReadyLegal DEF CommitFile, IInv, TypeOK, LegalInv
<1>2. n \in TreeType
  BY <1>1 DEF TreeType, IsFile
<1>3. \/ Begin("commit-file", Plain, index, NoTree, NoTree, NoTree, <<"fail">>)
      \/ ~clash /\ Begin("commit-file", Plain, index, n, NoTree, NoTree, <<"move">>)
  BY DEF CommitFile
<1>4. \A p, q \in Path : q \in Under(p) => head[p] = None \/ head[q] = None
  BY <1>1, LegalTree
<1>5. ~clash => Legal(FromTree(n))
  <2> SUFFICES ASSUME ~clash, NEW p \in Path, NEW q \in Path, q \in Under(p)
               PROVE  n[p] = None \/ n[q] = None
    BY <1>2, LegalTree
  <2>1. q # p /\ p \in Above(q)
    BY BelowFacts
  <2>2. CASE ~IsFile(wt, f)
    BY <1>4, <2>2
  <2>3. CASE IsFile(wt, f) /\ p = f
    BY <2>1, <2>3
  <2>4. CASE IsFile(wt, f) /\ q = f
    BY <2>1, <2>4
  <2>5. CASE IsFile(wt, f) /\ p # f /\ q # f
    BY <1>4, <2>5
  <2> QED
    BY <2>2, <2>3, <2>4, <2>5
<1>6. "commit-file" \in OpNames
  BY DEF OpNames
<1> HIDE DEF n, clash
<1> QED
  BY <1>1, <1>2, <1>3, <1>5, <1>6, LegalNoTree, OptionTypes, PlanType, BeginInv

LEMMA CommandsInv ==
  ASSUME IInv, Commands
  PROVE  IInv'
  BY OneTreeInv, CheckoutCommitInv, CheckoutFilesInv, ResetModeInv, MergeForwardInv, MergeTreesInv,
     CheckoutIndexInv, AddInv, RmInv, CleanInv, UnstageInv, CommitInv, CommitFileInv DEF Commands

-----------------------------------------------------------------------------
(* A command goes on.                                                      *)

LEMMA StopInv ==
  ASSUME IInv, run.op # "none", NEW o \in {"failed", "panic"}, Stop(o)
  PROVE  IInv'
<1>1. <<>> \in Seq(Phases)
  OBVIOUS
<1>2. TypeOK'
  BY <1>1 DEF IInv, TypeOK, Stop, RunType
<1>3. run'.op = run.op /\ run'.target = run.target /\ run'.new = run.new
  BY DEF IInv, TypeOK, Stop, RunType
<1>4. LegalInv'
  BY <1>3 DEF IInv, LegalInv, Stop
<1> QED
  BY <1>2, <1>4 DEF IInv

LEMMA DoneInv ==
  ASSUME IInv, NEW r \in RunType, r.op = run.op, r.op # "none", r.target = run.target,
         r.op # "merge-ff" => Legal(r.new),
         NEW p, NEW w \in WorkTreeType, Shaped(w), Done(r, p, w)
  PROVE  IInv'
<1>1. run' \in RunType /\ run'.op = r.op /\ run'.target = r.target /\ run'.new = r.new
  BY DEF Done, RunType
<1>2. TypeOK'
  BY <1>1 DEF Done, IInv, TypeOK
<1>3. LegalInv'
  BY <1>1 DEF Done, IInv, LegalInv
<1> QED
  BY <1>2, <1>3 DEF IInv

\* A file operation that leaves what is planned as it is.
LEMMA FileInv ==
  ASSUME IInv, run.op # "none", NEW p, NEW w \in WorkTreeType, Shaped(w), Done(run, p, w)
  PROVE  IInv'
  BY DoneInv DEF IInv, TypeOK, LegalInv

LEMMA FileStepsInv ==
  ASSUME IInv, FileSteps
  PROVE  IInv'
<1>1. PICK p \in run.todo : Kill(p) \/ Write(p) \/ WriteAll(p) \/ Prune(p) \/ Drop(p) \/ Put(p)
                     \/ MergeFile(p) \/ CleanUp(p)
  BY DEF FileSteps
<1>2. /\ p \in Path /\ run \in RunType /\ run.new \in IndexType /\ run.staged \in TreeType
      /\ wt \in WorkTreeType /\ Shaped(wt)
  BY DEF IInv, TypeOK, LegalInv, RunType
<1>3. run.plan # <<>> /\ run.op # "none"
  BY <1>1 DEF Kill, Write, WriteAll, Prune, Drop, Put, MergeFile, CleanUp, At, IInv, LegalInv
<1>4. run.new[p][0] \in Content \cup {None} /\ run.staged[p] \in Content \cup {None}
  BY <1>2, StageSet DEF IndexType, TreeType
<1>5. CASE Kill(p)
  BY <1>2, <1>3, <1>5, RemoveAllShaped, FileInv DEF Kill
<1>6. CASE Write(p)
  BY <1>2, <1>3, <1>4, <1>6, CheckoutFileShaped, FileInv, StopInv DEF Write
<1>7. CASE WriteAll(p)
  BY <1>2, <1>3, <1>4, <1>7, CheckoutFileShaped, FileInv DEF WriteAll
<1>8. CASE Prune(p)
  BY <1>2, <1>3, <1>8, RemoveFileCleanShaped, FileInv DEF Prune
<1>9. CASE Drop(p)
  BY <1>2, <1>3, <1>9, RemoveAllShaped, FileInv, StopInv DEF Drop
<1>10. CASE Put(p)
  <2> DEFINE n == Added(run.new, p, run.staged[p])
             r == [run EXCEPT !.new = n]
             w == Made(wt, p, run.staged[p])
  <2>1. CASE Stop("failed")
    BY <1>3, <2>1, StopInv
  <2>2. CASE Done(r, p, w)
    <3>1. n \in IndexType /\ (run.op # "merge-ff" => Legal(n))
      BY <1>2, <1>3, <1>4, AddedType, LegalAdded DEF IInv, LegalInv
    <3>2. w \in WorkTreeType /\ Shaped(w)
      BY <1>2, <1>4, MadeShaped
    <3>3. r \in RunType /\ r.op = run.op /\ r.target = run.target /\ r.new = n
      BY <1>2, <3>1 DEF RunType
    <3> HIDE DEF r, w, n
    <3> QED
      BY <1>3, <2>2, <3>1, <3>2, <3>3, DoneInv
  <2> QED
    BY <1>10, <2>1, <2>2 DEF Put
<1>11. CASE MergeFile(p)
  <2>1. Conflict \in Content \cup {None}
    BY WorkTreeAssumption
  <2> QED
    BY <1>2, <1>3, <1>11, <2>1, MadeShaped, FileInv, StopInv DEF MergeFile
<1>12. CASE CleanUp(p)
  BY <1>2, <1>3, <1>12, RemoveAllShaped, FileInv DEF CleanUp
<1> QED
  BY <1>1, <1>5, <1>6, <1>7, <1>8, <1>9, <1>10, <1>11, <1>12

\* The rest of the plan.
LEMMA PassedType ==
  ASSUME IInv, run.plan # <<>>, NEW i, NEW w
  PROVE  /\ run.op # "none" /\ run \in RunType
         /\ Passed(i, w) \in RunType
         /\ Passed(i, w).op = run.op /\ Passed(i, w).new = run.new /\ Passed(i, w).target = run.target
<1>1. run.plan \in Seq(Phases) /\ run \in RunType /\ run.op # "none"
  BY DEF IInv, TypeOK, LegalInv, RunType
<1>2. Tail(run.plan) \in Seq(Phases)
  BY <1>1
<1> DEFINE plan == Tail(run.plan)
<1>3. Passed(i, w) = Onward(run, plan, i, w)
  BY DEF Passed
<1> HIDE DEF plan
<1>4. plan \in Seq(Phases)
  BY <1>2 DEF plan
<1> QED
  BY <1>1, <1>3, <1>4, OnwardType

\* A step that ends a phase.
LEMMA PassedInv ==
  ASSUME IInv, run.plan # <<>>, NEW i, NEW w, run' = Passed(i, w),
         index' \in IndexType \cup {Torn}, head' \in TreeType, Legal(FromTree(head')),
         wt' \in WorkTreeType, Shaped(wt'), UNCHANGED was
  PROVE  IInv'
  BY PassedType DEF IInv, TypeOK, LegalInv

LEMMA StepsInv ==
  ASSUME IInv, Pass \/ Open \/ Save \/ Unlink \/ Move \/ Fail \/ Crash
  PROVE  IInv'
<1>1. /\ index \in IndexType \cup {Torn} /\ wt \in WorkTreeType /\ head \in TreeType /\ run \in RunType
      /\ run.new \in IndexType /\ run.target \in TreeType /\ run.files \subseteq Path
      /\ Shaped(wt) /\ Legal(FromTree(head)) /\ Legal(FromTree(run.target))
  BY DEF IInv, TypeOK, LegalInv, RunType
<1>2. CASE Pass
  BY <1>1, <1>2, PassedInv DEF Pass
<1>3. CASE Open
  BY <1>1, <1>3, PassedInv DEF Open, At
<1>4. CASE Save
  BY <1>1, <1>4, PassedInv DEF Save, At
<1>5. CASE Unlink
  <2>1. PICK p \in run.files :
          IF Exists(wt, p) /\ (IsDir(wt, p) => Empty(p))
          THEN wt' = RemoveAll(wt, p) /\ run' = Passed(index, wt') /\ UNCHANGED <<index, head, was>>
          ELSE Stop("failed")
    BY <1>5 DEF Unlink
  <2>2. run.plan # <<>> /\ run.op # "none"
    BY <1>5 DEF Unlink, At, IInv, LegalInv
  <2>3. RemoveAll(wt, p) \in WorkTreeType /\ Shaped(RemoveAll(wt, p))
    BY <1>1, RemoveAllShaped
  <2> QED
    BY <1>1, <2>1, <2>2, <2>3, PassedInv, StopInv
<1>6. CASE Move
  BY <1>1, <1>6, PassedInv DEF Move, At
<1>7. CASE Fail
  BY <1>7, StopInv DEF Fail, At, IInv, LegalInv
<1>8. CASE Crash
  <2>1. run' \in RunType /\ run'.op = "none" /\ run'.plan = <<>> /\ run'.outcome = "killed" /\ run'.target = NoTree
    BY <1>8, IdleType DEF Crash, RunType, Idle
  <2> QED
    BY <1>8, <2>1, LegalNoTree DEF Crash, IInv, TypeOK, LegalInv
<1> QED
  BY <1>2, <1>3, <1>4, <1>5, <1>6, <1>7, <1>8

LEMMA InitInv == Init => IInv
<1> SUFFICES ASSUME Init PROVE IInv
  OBVIOUS
<1>1. PICK s \in Starts : index = s[1] /\ wt = s[2] /\ head = s[3]
  BY DEF Init
<1>2. /\ index \in IndexType /\ wt \in WorkTreeType /\ head \in TreeType
      /\ Legal(index) /\ Shaped(wt) /\ Legal(FromTree(head))
  BY <1>1, WorkTreeAssumption
<1>3. run = Idle /\ was = [index |-> index, wt |-> wt, head |-> head]
  BY DEF Init
<1>4. index # Torn
  BY <1>2, WorkTreeAssumption
<1>5. run.op = "none" /\ run.plan = <<>> /\ run.target = NoTree
  BY <1>3 DEF Idle
<1> QED
  BY <1>2, <1>3, <1>4, <1>5, IdleType, LegalNoTree DEF IInv, TypeOK, LegalInv

LEMMA NextInv == IInv /\ [Next]_vars => IInv'
<1> SUFFICES ASSUME IInv, [Next]_vars PROVE IInv'
  OBVIOUS
<1>1. CASE Next
  BY <1>1, CommandsInv, FileStepsInv, StepsInv DEF Next
<1>2. CASE UNCHANGED vars
  BY <1>2 DEF vars, IInv, TypeOK, LegalInv, Shaped, Legal, Exists, IsDir, Has, Unmerged
<1> QED
  BY <1>1, <1>2

LEMMA Invariant == Spec => []IInv
  BY InitInv, NextInv, PTL DEF Spec

-----------------------------------------------------------------------------
(* Who changes what.                                                       *)

\* A command that starts has changed nothing yet.
LEMMA CommandsStart ==
  ASSUME Commands
  PROVE  /\ run.op = "none" /\ UNCHANGED <<index, wt, head>>
         /\ was' = [index |-> index, wt |-> wt, head |-> head]
<1>1. ASSUME NEW r, NEW op, Ready(op), Start(r)
      PROVE  /\ run.op = "none" /\ UNCHANGED <<index, wt, head>>
             /\ was' = [index |-> index, wt |-> wt, head |-> head]
  BY <1>1 DEF Ready, Start
<1>2. CASE \E opt \in Options, t \in Trees : OneTree(opt, t)
  BY <1>1, <1>2 DEF OneTree, Starting, Begin
<1>3. CASE \E t \in Trees, force \in BOOLEAN : CheckoutCommit(t, force)
  BY <1>1, <1>3 DEF CheckoutCommit, Begin
<1>4. CASE \E t \in Trees, f \in Path : CheckoutFiles(t, {f})
  BY <1>1, <1>4 DEF CheckoutFiles
<1>5. CASE \E mode \in {"reset-soft", "reset-mixed", "reset-hard"}, t \in Trees : ResetMode(mode, t)
  BY <1>1, <1>5 DEF ResetMode, Starting, Begin
<1>6. CASE \E t \in Trees : MergeForward(t)
  BY <1>1, <1>6 DEF MergeForward, FastForward, Begin
<1>7. CASE \E base, t \in Trees : MergeTrees(base, t)
  BY <1>1, <1>7 DEF MergeTrees, ThreeWay, Begin
<1>8. CASE \E force \in BOOLEAN : CheckoutIndex(force)
  BY <1>1, <1>8 DEF CheckoutIndex
<1>9. CASE \E F \in (SUBSET Path) \ {{}} : Add(F)
  BY <1>1, <1>9 DEF Add, Begin
<1>10. CASE \E F \in (SUBSET Path) \ {{}}, force, cached \in BOOLEAN : Rm(F, force, cached)
  BY <1>1, <1>10 DEF Rm
<1>11. CASE \E F \in (SUBSET Path) \ {{}} : Unstage(F)
  BY <1>1, <1>11 DEF Unstage, Begin
<1>12. CASE \E F \in (SUBSET Path) \ {{}}, dirs \in BOOLEAN : Clean(F, dirs)
  BY <1>1, <1>12 DEF Clean
<1>13. CASE \E all \in BOOLEAN : Commit(all)
  BY <1>1, <1>13 DEF Commit, Begin
<1>14. CASE \E f \in Path : CommitFile(f)
  BY <1>1, <1>14 DEF CommitFile, Begin
<1> QED
  BY <1>2, <1>3, <1>4, <1>5, <1>6, <1>7, <1>8, <1>9, <1>10, <1>11, <1>12, <1>13, <1>14 DEF Commands

\* A file operation changes the work tree only.
LEMMA FileStepsKeep ==
  ASSUME FileSteps
  PROVE  run.plan # <<>> /\ UNCHANGED <<index, head, was>>
<1>1. PICK p \in run.todo : Kill(p) \/ Write(p) \/ WriteAll(p) \/ Prune(p) \/ Drop(p) \/ Put(p)
                     \/ MergeFile(p) \/ CleanUp(p)
  BY DEF FileSteps
<1>2. CASE Kill(p) \/ Write(p) \/ WriteAll(p) \/ CleanUp(p)
  BY <1>2 DEF Kill, Write, WriteAll, CleanUp, At, Done, Stop
<1>3. CASE Prune(p) \/ Drop(p)
  BY <1>3 DEF Prune, Drop, At, Done, Stop
<1>4. CASE Put(p) \/ MergeFile(p)
  BY <1>4 DEF Put, MergeFile, At, Done, Stop
<1> QED
  BY <1>1, <1>2, <1>3, <1>4

\* The index changes when it is truncated and when it is written.
LEMMA IndexWriters ==
  ASSUME Next, index' \notin {index, Torn}
  PROVE  Save
<1>1. ~Commands
  BY CommandsStart
<1>2. ~FileSteps
  BY FileStepsKeep
<1>3. ~(Pass \/ Move \/ Fail \/ Crash)
  BY DEF Pass, Move, Fail, Crash, Stop
<1>4. ~Open /\ ~Unlink
  BY DEF Open, Unlink, Stop
<1> QED
  BY <1>1, <1>2, <1>3, <1>4 DEF Next

-----------------------------------------------------------------------------
(* Types, the shape of the work tree and the index.                        *)

\* Every command leaves every variable in its type.
THEOREM TypeCorrect == Spec => []TypeOK
<1>1. IInv => TypeOK
  BY DEF IInv
<1> QED
  BY <1>1, Invariant, PTL

\* What is in the work tree is in directories: no file operation of any command
\* makes a file below a file.
THEOREM WorkTreeShaped == Spec => []Shaped(wt)
<1>1. IInv => Shaped(wt)
  BY DEF IInv, LegalInv
<1> QED
  BY <1>1, Invariant, PTL

\* No command but the fast-forward of a merge writes an index in which a file is
\* a directory or a conflict as well.
THEOREM IndexStaysLegal == Spec => IndexLegal
<1> DEFINE Written == index' \notin {index, Torn} /\ run.op # "merge-ff" => Legal(index')
<1>1. IInv /\ [Next]_vars => [Written]_vars
  <2> SUFFICES ASSUME IInv, Next, index' \notin {index, Torn}, run.op # "merge-ff"
               PROVE  Legal(index')
    OBVIOUS
  <2>1. Save
    BY IndexWriters
  <2>2. run.op # "none" /\ index' = run.new
    BY <2>1 DEF Save, At, IInv, LegalInv
  <2> QED
    BY <2>2 DEF IInv, LegalInv
<1> QED
  BY <1>1, Invariant, PTL DEF Spec, IndexLegal

-----------------------------------------------------------------------------
(* What the steps do to the record of the command.                         *)

\* The command is the one it was.
SameTask ==
  /\ run'.op = run.op /\ run'.opt = run.opt /\ run'.new = run.new /\ run'.files = run.files
  /\ run'.staged = run.staged /\ run'.target = run.target /\ run'.base = run.base

\* A command that stops is what it was, and has no plan.
LEMMA StopFields ==
  ASSUME run \in RunType, NEW o, Stop(o)
  PROVE  /\ SameTask /\ run'.plan = <<>> /\ run'.todo = {} /\ run'.outcome = o
         /\ UNCHANGED <<index, wt, head, was>>
  BY DEF Stop, SameTask, RunType

\* A file operation leaves the command at its phase, with one path less.
LEMMA DoneFields ==
  ASSUME run \in RunType, NEW p, NEW w, Done(run, p, w)
  PROVE  /\ SameTask /\ run'.plan = run.plan /\ run'.todo = run.todo \ {p} /\ run'.outcome = run.outcome
         /\ wt' = w /\ UNCHANGED <<index, head, was>>
  BY DEF Done, SameTask, RunType

\* The next phase begins with all its paths.
LEMMA PassedFields ==
  ASSUME run \in RunType, run.plan # <<>>, NEW i, NEW w, run' = Passed(i, w)
  PROVE  /\ SameTask /\ run'.plan = Tail(run.plan)
         /\ run'.plan = <<>> => run'.todo = {} /\ run'.outcome = "ok"
         /\ run'.plan # <<>> => run'.todo = Work(Head(run'.plan), run, i, w) /\ run'.outcome = "running"
  BY DEF Passed, Onward, SameTask, RunType

\* A command starts as it was planned, and remembers what it found.
LEMMA StartFields ==
  ASSUME NEW r \in RunType, Start(r)
  PROVE  /\ run'.op = r.op /\ run'.opt = r.opt /\ run'.new = r.new /\ run'.files = r.files
         /\ run'.staged = r.staged /\ run'.target = r.target /\ run'.base = r.base
         /\ run'.plan = r.plan
         /\ run'.plan = <<>> => run'.todo = {} /\ run'.outcome = "ok"
         /\ run'.plan # <<>> => run'.todo = Work(Head(run'.plan), r, index, wt) /\ run'.outcome = "running"
         /\ was' = [index |-> index, wt |-> wt, head |-> head]
         /\ UNCHANGED <<index, wt, head>>
  BY DEF Start, Onward, RunType

\* A command that is killed is gone.
LEMMA CrashFields ==
  ASSUME Crash
  PROVE  run'.op = "none" /\ run'.plan = <<>> /\ run'.todo = {} /\ run'.outcome = "killed"
  BY DEF Crash, Idle

\* The same, by what Begin is given.
LEMMA BeginFields ==
  ASSUME NEW op \in OpNames, NEW opt \in Options, NEW n \in IndexType, NEW target \in TreeType,
         NEW base \in TreeType, NEW staged \in TreeType, NEW plan \in Seq(Phases),
         Begin(op, opt, n, target, base, staged, plan)
  PROVE  /\ run'.op = op /\ run'.opt = opt /\ run'.new = n
         /\ run'.files = (IF Acts(opt) THEN ToCheckOut(opt, index, n, wt) ELSE {})
         /\ run'.staged = staged /\ run'.target = target /\ run'.base = base
         /\ run'.plan = plan
         /\ run'.plan = <<>> => run'.todo = {} /\ run'.outcome = "ok"
         /\ run'.plan # <<>> => run'.todo = Work(Head(plan), run', index, wt) /\ run'.outcome = "running"
         /\ was' = [index |-> index, wt |-> wt, head |-> head]
         /\ UNCHANGED <<index, wt, head>>
<1> DEFINE files == IF Acts(opt) THEN ToCheckOut(opt, index, n, wt) ELSE {}
           r == [Command(op) EXCEPT !.opt = opt, !.new = n, !.target = target, !.base = base,
                   !.staged = staged, !.plan = plan, !.files = files]
<1>1. files \subseteq Path
  BY DEF ToCheckOut
<1>2. /\ r \in RunType /\ r.op = op /\ r.target = target /\ r.new = n /\ r.opt = opt /\ r.files = files
      /\ r.base = base /\ r.staged = staged /\ r.plan = plan
  BY <1>1, IdleType DEF Command, RunType
<1>3. Start(r)
  BY DEF Begin
<1> HIDE DEF r, files
<1>4. /\ run'.op = r.op /\ run'.opt = r.opt /\ run'.new = r.new /\ run'.files = r.files
      /\ run'.staged = r.staged /\ run'.target = r.target /\ run'.base = r.base
      /\ run'.plan = r.plan
      /\ run'.plan = <<>> => run'.todo = {} /\ run'.outcome = "ok"
      /\ run'.plan # <<>> => run'.todo = Work(Head(run'.plan), r, index, wt) /\ run'.outcome = "running"
      /\ was' = [index |-> index, wt |-> wt, head |-> head]
      /\ UNCHANGED <<index, wt, head>>
  BY <1>2, <1>3, StartFields
<1>5. Work(Head(plan), run', index, wt) = Work(Head(plan), r, index, wt)
  BY <1>4 DEF Work
<1> QED
  BY <1>2, <1>4, <1>5 DEF files

\* Which command begins.
LEMMA BeginOp ==
  ASSUME NEW op, NEW opt, NEW n, NEW target, NEW base, NEW staged, NEW plan,
         Begin(op, opt, n, target, base, staged, plan)
  PROVE  run'.op = op
  BY DEF Begin, Start, Onward, Command, Idle

\* Which command it is that starts.
LEMMA StartedBy ==
  ASSUME Commands
  PROVE  /\ run'.op = "clean" => \E F \in (SUBSET Path) \ {{}}, dirs \in BOOLEAN : Clean(F, dirs)
         /\ run'.op = "reset-hard" => \E t \in Trees : ResetMode("reset-hard", t)
         /\ run'.op = "checkout" => \E t \in Trees, force \in BOOLEAN : CheckoutCommit(t, force)
         /\ run'.op = "merge-ff" => \E t \in Trees : MergeForward(t)
         /\ run'.op = "merge" => \E base, t \in Trees : MergeTrees(base, t)
         /\ run'.op = "read-tree" => \E opt \in Options, t \in Trees : OneTree(opt, t)
<1>1. CASE \E opt \in Options, t \in Trees : OneTree(opt, t)
  <2>1. run'.op = "read-tree"
    BY <1>1, BeginOp DEF OneTree, Starting
  <2> QED
    BY <1>1, <2>1
<1>2. CASE \E t \in Trees, force \in BOOLEAN : CheckoutCommit(t, force)
  <2>1. run'.op = "checkout"
    BY <1>2, BeginOp DEF CheckoutCommit
  <2> QED
    BY <1>2, <2>1
<1>3. CASE \E t \in Trees, f \in Path : CheckoutFiles(t, {f})
  <2>1. run'.op = "checkout-paths"
    BY <1>3 DEF CheckoutFiles, Start, Onward, Command, Idle
  <2> QED
    BY <2>1
<1>4. CASE \E mode \in {"reset-soft", "reset-mixed", "reset-hard"}, t \in Trees : ResetMode(mode, t)
  <2>1. PICK mode \in {"reset-soft", "reset-mixed", "reset-hard"}, t \in Trees : ResetMode(mode, t)
    BY <1>4
  <2>2. run'.op = mode
    BY <2>1, BeginOp DEF ResetMode, Starting
  <2> QED
    BY <2>1, <2>2
<1>5. CASE \E t \in Trees : MergeForward(t)
  <2>1. run'.op = "merge-ff"
    BY <1>5, BeginOp DEF MergeForward, FastForward
  <2> QED
    BY <1>5, <2>1
<1>6. CASE \E base, t \in Trees : MergeTrees(base, t)
  <2>1. run'.op = "merge"
    BY <1>6, BeginOp DEF MergeTrees, ThreeWay
  <2> QED
    BY <1>6, <2>1
<1>7. CASE \E force \in BOOLEAN : CheckoutIndex(force)
  <2>1. run'.op = "checkout-index"
    BY <1>7 DEF CheckoutIndex, Start, Onward, Command, Idle
  <2> QED
    BY <2>1
<1>8. CASE \E F \in (SUBSET Path) \ {{}} : Add(F)
  <2>1. run'.op = "add"
    BY <1>8, BeginOp DEF Add
  <2> QED
    BY <2>1
<1>9. CASE \E F \in (SUBSET Path) \ {{}}, force, cached \in BOOLEAN : Rm(F, force, cached)
  <2>1. run'.op = "rm"
    BY <1>9 DEF Rm, Start, Onward, Command, Idle
  <2> QED
    BY <2>1
<1>10. CASE \E F \in (SUBSET Path) \ {{}} : Unstage(F)
  <2>1. run'.op = "unstage"
    BY <1>10, BeginOp DEF Unstage
  <2> QED
    BY <2>1
<1>11. CASE \E F \in (SUBSET Path) \ {{}}, dirs \in BOOLEAN : Clean(F, dirs)
  <2>1. run'.op = "clean"
    BY <1>11 DEF Clean, Start, Onward, Command, Idle
  <2> QED
    BY <1>11, <2>1
<1>12. CASE (\E all \in BOOLEAN : Commit(all)) \/ \E f \in Path : CommitFile(f)
  <2>1. run'.op \in {"commit", "commit-file"}
    BY <1>12, BeginOp DEF Commit, CommitFile
  <2> QED
    BY <2>1
<1> QED
  BY <1>1, <1>2, <1>3, <1>4, <1>5, <1>6, <1>7, <1>8, <1>9, <1>10, <1>11, <1>12 DEF Commands

\* A step that does not start a command leaves it the one it was, but for the
\* index a staged change is put into.
LEMMA StepKeepsTask ==
  ASSUME run \in RunType, Next, ~Commands, ~Crash
  PROVE  /\ run'.op = run.op /\ run'.opt = run.opt /\ run'.files = run.files
         /\ run'.staged = run.staged /\ run'.target = run.target /\ run'.base = run.base
         /\ was' = was
<1>1. CASE FileSteps
  <2>1. PICK p \in run.todo : Kill(p) \/ Write(p) \/ WriteAll(p) \/ Prune(p) \/ Drop(p) \/ Put(p)
                       \/ MergeFile(p) \/ CleanUp(p)
    BY <1>1 DEF FileSteps
  <2>2. CASE Put(p) /\ ~Stop("failed")
    BY <2>2 DEF Put, Done, RunType
  <2>3. CASE \E o : Stop(o)
    BY <2>3, StopFields DEF SameTask
  <2>4. CASE \E w : Done(run, p, w)
    BY <2>4, DoneFields DEF SameTask
  <2> QED
    BY <2>1, <2>2, <2>3, <2>4 DEF Kill, Write, WriteAll, Prune, Drop, MergeFile, CleanUp
<1>2. CASE Pass \/ Open \/ Save \/ Move
  <2>1. \E i, w : run' = Passed(i, w)
    BY <1>2 DEF Pass, Open, Save, Move
  <2>2. run.plan # <<>> /\ was' = was
    BY <1>2 DEF Pass, Open, Save, Move, At
  <2> QED
    BY <2>1, <2>2, PassedFields DEF SameTask
<1>3. CASE Unlink
  <2>1. run.plan # <<>> /\ was' = was /\ ((\E i, w : run' = Passed(i, w)) \/ Stop("failed"))
    BY <1>3 DEF Unlink, At, Stop
  <2> QED
    BY <2>1, PassedFields, StopFields DEF SameTask
<1>4. CASE Fail
  BY <1>4, StopFields DEF Fail, SameTask
<1> QED
  BY <1>1, <1>2, <1>3, <1>4 DEF Next

-----------------------------------------------------------------------------
(* clean.                                                                  *)

\* What may go: neither it nor anything in it has an entry.
Loose(f) ==
  /\ ~Has(was.index, f)
  /\ IsDir(was.wt, f) => \A q \in Under(f) : ~Has(was.index, q)

\* clean has only such paths to remove, and only they, and what was in them,
\* are gone.
SparesInv == run.op = "clean" =>
  /\ Shaped(was.wt)
  /\ run.plan \in {<<"clean">>, <<>>}
  /\ run.todo \subseteq run.files
  /\ \A f \in run.files : Loose(f)
  /\ \A p \in Path : wt[p] # was.wt[p] =>
       wt[p] = None /\ \E f \in run.files : p = f \/ p \in Under(f)

\* clean starts with paths that are loose.
LEMMA SparesStart ==
  ASSUME IInv, NEW F, NEW dirs, Clean(F, dirs)
  PROVE  SparesInv'
<1> DEFINE files == Cleaned(F, dirs)
           plan == <<"clean">>
           r == [Command("clean") EXCEPT !.files = files, !.plan = plan]
<1>1. files \subseteq Path /\ plan \in Seq(Phases) /\ "clean" \in OpNames
  BY DEF Cleaned, Selected, Phases, OpNames
<1>2. Start(r) /\ r \in RunType /\ r.plan = plan /\ r.files = files
  BY <1>1, IdleType DEF Clean, Command, RunType, Idle
<1>3. plan # <<>> /\ Head(plan) = "clean"
  OBVIOUS
<1> HIDE DEF r, plan, files
<1>4. /\ run'.files = files /\ run'.plan = plan /\ run'.todo = Work("clean", r, index, wt)
      /\ was' = [index |-> index, wt |-> wt, head |-> head] /\ wt' = wt
  BY <1>2, <1>3, StartFields
<1>5. run'.todo = files
  BY <1>2, <1>4 DEF Work
<1>6. Shaped(wt)
  BY DEF IInv, LegalInv
<1>7. was'.wt = wt /\ was'.index = index
  BY <1>4
<1>8. \A f \in files : ~Has(index, f) /\ (IsDir(wt, f) => \A q \in Under(f) : ~Has(index, q))
  <2> SUFFICES ASSUME NEW f \in files
               PROVE  ~Has(index, f) /\ (IsDir(wt, f) => \A q \in Under(f) : ~Has(index, q))
    OBVIOUS
  <2>1. \/ IsDir(wt, f) /\ \A q \in {f} \cup Under(f) : ~Has(index, q)
        \/ IsFile(wt, f) /\ ~Has(index, f)
    BY DEF files, Cleaned
  <2>2. IsFile(wt, f) => ~IsDir(wt, f)
    BY IndexAssumption DEF IsFile, IsDir
  <2> QED
    BY <2>1, <2>2
<1>9. \A f \in files : Loose(f)'
  BY <1>7, <1>8 DEF Loose
<1> QED
  BY <1>1, <1>4, <1>5, <1>6, <1>7, <1>9 DEF SparesInv, plan

\* It removes one of them.
LEMMA SparesCleanUp ==
  ASSUME IInv, SparesInv, run.op = "clean", NEW p, CleanUp(p)
  PROVE  SparesInv'
<1>1. p \in run.files /\ p \in Path /\ run \in RunType
  BY DEF CleanUp, Turn, SparesInv, IInv, TypeOK, RunType
<1>2. /\ run'.plan = run.plan /\ run'.todo = run.todo \ {p} /\ run'.files = run.files
      /\ wt' = RemoveAll(wt, p) /\ was' = was
  BY <1>1, DoneFields DEF CleanUp, SameTask
<1>3. ASSUME NEW q \in Path, wt'[q] # was.wt[q]
      PROVE  wt'[q] = None /\ \E f \in run.files : q = f \/ q \in Under(f)
  <2>1. CASE q = p \/ q \in Under(p)
    BY <1>1, <1>2, <2>1 DEF RemoveAll
  <2>2. CASE ~(q = p \/ q \in Under(p))
    <3>1. wt'[q] = wt[q]
      BY <1>2, <2>2 DEF RemoveAll
    <3> QED
      BY <1>3, <3>1 DEF SparesInv
  <2> QED
    BY <2>1, <2>2
<1>4. \A f \in run.files : Loose(f)'
  BY <1>2 DEF SparesInv, Loose
<1> QED
  BY <1>2, <1>3, <1>4 DEF SparesInv

\* So at every step.
LEMMA SparesNext == IInv /\ SparesInv /\ [Next]_vars => SparesInv'
<1> SUFFICES ASSUME IInv, SparesInv, [Next]_vars, run'.op = "clean" PROVE SparesInv'
  BY DEF SparesInv
<1>1. CASE Commands
  BY <1>1, StartedBy, SparesStart
<1>2. CASE run.op = "clean" /\ Next /\ ~Commands
  <2>1. run \in RunType /\ run.plan \in {<<"clean">>, <<>>}
    BY <1>2 DEF IInv, TypeOK, SparesInv
  <2>2. <<"clean">> # <<>> /\ Head(<<"clean">>) = "clean" /\ Tail(<<"clean">>) = <<>>
    OBVIOUS
  <2>3. \A phase : At(phase) => phase = "clean"
    BY <2>1, <2>2 DEF At
  <2>4. CASE FileSteps
    <3>1. \E p : CleanUp(p)
      BY <2>3, <2>4 DEF FileSteps, Kill, Write, WriteAll, Prune, Drop, Put, MergeFile
    <3> QED
      BY <1>2, <3>1, SparesCleanUp
  <2>5. CASE Pass
    <3>1. /\ run.plan = <<"clean">> /\ run' = Passed(index, wt) /\ UNCHANGED <<wt, was>>
      BY <2>1, <2>5 DEF Pass
    <3>2. run'.plan = <<>> /\ run'.todo = {} /\ run'.files = run.files
      BY <2>1, <2>2, <3>1, PassedFields DEF SameTask
    <3> QED
      BY <1>2, <3>1, <3>2 DEF SparesInv, Loose
  <2>6. CASE Crash
    BY <2>6, CrashFields
  <2> QED
    BY <1>2, <2>3, <2>4, <2>5, <2>6 DEF Next, Open, Save, Unlink, Move, Fail
<1>3. CASE UNCHANGED vars
  BY <1>3 DEF vars, SparesInv, Loose, Shaped, Exists, IsDir, Has
<1>4. run.op # "clean" /\ Next /\ ~Commands => FALSE
  <2> SUFFICES ASSUME run.op # "clean", Next, ~Commands PROVE FALSE
    OBVIOUS
  <2>1. run \in RunType
    BY DEF IInv, TypeOK
  <2>2. CASE Crash
    BY <2>2, CrashFields
  <2>3. CASE ~Crash
    BY <2>1, <2>3, StepKeepsTask DEF SameTask
  <2> QED
    BY <2>2, <2>3
<1> QED
  BY <1>1, <1>2, <1>3, <1>4

\* clean takes away only what has no entry, and a directory only when nothing
\* in it has one (lsfiles.go:52, clean.go:23).
THEOREM CleanSparesTracked == Spec => []CleanSpares
<1>1. Init => SparesInv
  BY DEF Init, SparesInv, Idle
<1>2. IInv /\ SparesInv => CleanSpares
  <2> SUFFICES ASSUME IInv, SparesInv, run.op = "clean", NEW p \in Path, wt[p] # was.wt[p]
               PROVE  /\ wt[p] = None /\ ~Has(was.index, p)
                      /\ IsDir(was.wt, p) => \A q \in Under(p) : ~Has(was.index, q)
    BY DEF CleanSpares
  <2>1. wt[p] = None
    BY DEF SparesInv
  <2>2. PICK f \in run.files : p = f \/ p \in Under(f)
    BY DEF SparesInv
  <2>3. f \in Path /\ Loose(f)
    BY DEF SparesInv, IInv, TypeOK, RunType
  <2>4. CASE p = f
    BY <2>1, <2>3, <2>4 DEF Loose
  <2>5. CASE p \in Under(f)
    <3>1. f \in Above(p) /\ \A q \in Under(p) : q \in Under(f)
      BY <2>3, <2>5, BelowFacts
    <3>2. IsDir(was.wt, f)
      BY <2>1, <3>1 DEF SparesInv, Shaped, Exists
    <3> QED
      BY <2>1, <2>3, <2>5, <3>1, <3>2 DEF Loose
  <2> QED
    BY <2>2, <2>4, <2>5
<1> QED
  BY <1>1, <1>2, Invariant, SparesNext, PTL DEF Spec

-----------------------------------------------------------------------------
(* Plans.                                                                  *)

\* The plans, written out.
LEMMA Plans ==
  /\ <<"kill", "write", "prune">> \o <<"drop">>
     = <<"kill", "write", "prune", "drop">>
  /\ <<"kill", "write", "prune", "drop">> \o <<"open", "save">>
     = <<"kill", "write", "prune", "drop", "open", "save">>
  /\ <<"kill", "write", "prune">> \o <<"open", "save">>
     = <<"kill", "write", "prune", "open", "save">>
  /\ <<"kill", "write", "prune", "drop", "open", "save">> \o <<"kill", "writeAll", "open", "save">>
     = <<"kill", "write", "prune", "drop", "open", "save", "kill", "writeAll", "open", "save">>
  /\ <<"move">> \o <<"kill", "write", "prune", "drop", "open", "save", "kill", "writeAll", "open", "save">>
     = <<"move", "kill", "write", "prune", "drop", "open", "save", "kill", "writeAll", "open", "save">>
<1>1. <<"kill", "write", "prune">> \o <<"drop">>
      = <<"kill", "write", "prune", "drop">>
  <2> DEFINE u == <<"kill", "write", "prune">>
             v == <<"drop">>
             t == <<"kill", "write", "prune", "drop">>
  <2>1. u \in Seq(Phases) /\ v \in Seq(Phases) /\ t \in Seq(Phases)
    BY DEF Phases
  <2>2. /\ Len(u) = 3 /\ Len(v) = 1 /\ Len(t) = 3 + 1
        /\ \A i \in 1..3 : t[i] = u[i]
        /\ \A i \in 1..1 : t[3 + i] = v[i]
    OBVIOUS
  <2> HIDE DEF u, v, t
  <2>3. /\ Len(t) = Len(u) + Len(v) /\ \A i \in 1..Len(u) : t[i] = u[i]
        /\ \A i \in 1..Len(v) : t[Len(u) + i] = v[i]
    BY <2>2
  <2>4. u \o v = t
    BY <2>1, <2>3, Joined
  <2> QED
    BY <2>4 DEF u, v, t
<1>2. <<"kill", "write", "prune", "drop">> \o <<"open", "save">>
      = <<"kill", "write", "prune", "drop", "open", "save">>
  <2> DEFINE u == <<"kill", "write", "prune", "drop">>
             v == <<"open", "save">>
             t == <<"kill", "write", "prune", "drop", "open", "save">>
  <2>1. u \in Seq(Phases) /\ v \in Seq(Phases) /\ t \in Seq(Phases)
    BY DEF Phases
  <2>2. /\ Len(u) = 4 /\ Len(v) = 2 /\ Len(t) = 4 + 2
        /\ \A i \in 1..4 : t[i] = u[i]
        /\ \A i \in 1..2 : t[4 + i] = v[i]
    OBVIOUS
  <2> HIDE DEF u, v, t
  <2>3. /\ Len(t) = Len(u) + Len(v) /\ \A i \in 1..Len(u) : t[i] = u[i]
        /\ \A i \in 1..Len(v) : t[Len(u) + i] = v[i]
    BY <2>2
  <2>4. u \o v = t
    BY <2>1, <2>3, Joined
  <2> QED
    BY <2>4 DEF u, v, t
<1>3. <<"kill", "write", "prune">> \o <<"open", "save">>
      = <<"kill", "write", "prune", "open", "save">>
  <2> DEFINE u == <<"kill", "write", "prune">>
             v == <<"open", "save">>
             t == <<"kill", "write", "prune", "open", "save">>
  <2>1. u \in Seq(Phases) /\ v \in Seq(Phases) /\ t \in Seq(Phases)
    BY DEF Phases
  <2>2. /\ Len(u) = 3 /\ Len(v) = 2 /\ Len(t) = 3 + 2
        /\ \A i \in 1..3 : t[i] = u[i]
        /\ \A i \in 1..2 : t[3 + i] = v[i]
    OBVIOUS
  <2> HIDE DEF u, v, t
  <2>3. /\ Len(t) = Len(u) + Len(v) /\ \A i \in 1..Len(u) : t[i] = u[i]
        /\ \A i \in 1..Len(v) : t[Len(u) + i] = v[i]
    BY <2>2
  <2>4. u \o v = t
    BY <2>1, <2>3, Joined
  <2> QED
    BY <2>4 DEF u, v, t
<1>4. <<"kill", "write", "prune", "drop", "open", "save">> \o <<"kill", "writeAll", "open", "save">>
      = <<"kill", "write", "prune", "drop", "open", "save", "kill", "writeAll", "open", "save">>
  <2> DEFINE u == <<"kill", "write", "prune", "drop", "open", "save">>
             v == <<"kill", "writeAll", "open", "save">>
             t == <<"kill", "write", "prune", "drop", "open", "save", "kill", "writeAll", "open", "save">>
  <2>1. u \in Seq(Phases) /\ v \in Seq(Phases) /\ t \in Seq(Phases)
    BY DEF Phases
  <2>2. /\ Len(u) = 6 /\ Len(v) = 4 /\ Len(t) = 6 + 4
        /\ \A i \in 1..6 : t[i] = u[i]
        /\ \A i \in 1..4 : t[6 + i] = v[i]
    OBVIOUS
  <2> HIDE DEF u, v, t
  <2>3. /\ Len(t) = Len(u) + Len(v) /\ \A i \in 1..Len(u) : t[i] = u[i]
        /\ \A i \in 1..Len(v) : t[Len(u) + i] = v[i]
    BY <2>2
  <2>4. u \o v = t
    BY <2>1, <2>3, Joined
  <2> QED
    BY <2>4 DEF u, v, t
<1>5. <<"move">> \o <<"kill", "write", "prune", "drop", "open", "save", "kill", "writeAll", "open", "save">>
      = <<"move", "kill", "write", "prune", "drop", "open", "save", "kill", "writeAll", "open", "save">>
  <2> DEFINE u == <<"move">>
             v == <<"kill", "write", "prune", "drop", "open", "save", "kill", "writeAll", "open", "save">>
             t == <<"move", "kill", "write", "prune", "drop", "open", "save", "kill", "writeAll", "open", "save">>
  <2>1. u \in Seq(Phases) /\ v \in Seq(Phases) /\ t \in Seq(Phases)
    BY DEF Phases
  <2>2. /\ Len(u) = 1 /\ Len(v) = 10 /\ Len(t) = 1 + 10
        /\ \A i \in 1..1 : t[i] = u[i]
        /\ \A i \in 1..10 : t[1 + i] = v[i]
    OBVIOUS
  <2> HIDE DEF u, v, t
  <2>3. /\ Len(t) = Len(u) + Len(v) /\ \A i \in 1..Len(u) : t[i] = u[i]
        /\ \A i \in 1..Len(v) : t[Len(u) + i] = v[i]
    BY <2>2
  <2>4. u \o v = t
    BY <2>1, <2>3, Joined
  <2> QED
    BY <2>4 DEF u, v, t
<1> QED
  BY <1>1, <1>2, <1>3, <1>4, <1>5

\* What reset --hard has still to do when k phases are left.
HardPlan(k) ==
  CASE k = 0 -> <<>>
    [] k = 1 -> <<"save">>
    [] k = 2 -> <<"open", "save">>
    [] k = 3 -> <<"writeAll", "open", "save">>
    [] k = 4 -> <<"kill", "writeAll", "open", "save">>
    [] k = 5 -> <<"save", "kill", "writeAll", "open", "save">>
    [] k = 6 -> <<"open", "save", "kill", "writeAll", "open", "save">>
    [] k = 7 -> <<"drop", "open", "save", "kill", "writeAll", "open", "save">>
    [] k = 8 -> <<"prune", "drop", "open", "save", "kill", "writeAll", "open", "save">>
    [] k = 9 -> <<"write", "prune", "drop", "open", "save", "kill", "writeAll", "open", "save">>
    [] k = 10 -> <<"kill", "write", "prune", "drop", "open", "save", "kill", "writeAll", "open", "save">>
    [] k = 11 -> <<"move", "kill", "write", "prune", "drop", "open", "save", "kill", "writeAll", "open", "save">>

\* The phases of reset --hard in their order.
LEMMA HardPlanSteps ==
  /\ HardPlan(0) = <<>>
  /\ HardPlan(1) # <<>> /\ Head(HardPlan(1)) = "save" /\ Tail(HardPlan(1)) = HardPlan(0)
  /\ HardPlan(2) # <<>> /\ Head(HardPlan(2)) = "open" /\ Tail(HardPlan(2)) = HardPlan(1)
  /\ HardPlan(3) # <<>> /\ Head(HardPlan(3)) = "writeAll" /\ Tail(HardPlan(3)) = HardPlan(2)
  /\ HardPlan(4) # <<>> /\ Head(HardPlan(4)) = "kill" /\ Tail(HardPlan(4)) = HardPlan(3)
  /\ HardPlan(5) # <<>> /\ Head(HardPlan(5)) = "save" /\ Tail(HardPlan(5)) = HardPlan(4)
  /\ HardPlan(6) # <<>> /\ Head(HardPlan(6)) = "open" /\ Tail(HardPlan(6)) = HardPlan(5)
  /\ HardPlan(7) # <<>> /\ Head(HardPlan(7)) = "drop" /\ Tail(HardPlan(7)) = HardPlan(6)
  /\ HardPlan(8) # <<>> /\ Head(HardPlan(8)) = "prune" /\ Tail(HardPlan(8)) = HardPlan(7)
  /\ HardPlan(9) # <<>> /\ Head(HardPlan(9)) = "write" /\ Tail(HardPlan(9)) = HardPlan(8)
  /\ HardPlan(10) # <<>> /\ Head(HardPlan(10)) = "kill" /\ Tail(HardPlan(10)) = HardPlan(9)
  /\ HardPlan(11) # <<>> /\ Head(HardPlan(11)) = "move" /\ Tail(HardPlan(11)) = HardPlan(10)
  /\ \A k \in 0..11 : HardPlan(k) \in Seq(Phases) /\ Len(HardPlan(k)) = k
<1>1. HardPlan(0) = <<>>
  BY DEF HardPlan
<1>2. /\ HardPlan(1) # <<>> /\ Head(HardPlan(1)) = "save" /\ Tail(HardPlan(1)) = HardPlan(0)
      /\ HardPlan(2) # <<>> /\ Head(HardPlan(2)) = "open" /\ Tail(HardPlan(2)) = HardPlan(1)
      /\ HardPlan(3) # <<>> /\ Head(HardPlan(3)) = "writeAll" /\ Tail(HardPlan(3)) = HardPlan(2)
      /\ HardPlan(4) # <<>> /\ Head(HardPlan(4)) = "kill" /\ Tail(HardPlan(4)) = HardPlan(3)
      /\ HardPlan(5) # <<>> /\ Head(HardPlan(5)) = "save" /\ Tail(HardPlan(5)) = HardPlan(4)
      /\ HardPlan(6) # <<>> /\ Head(HardPlan(6)) = "open" /\ Tail(HardPlan(6)) = HardPlan(5)
      /\ HardPlan(7) # <<>> /\ Head(HardPlan(7)) = "drop" /\ Tail(HardPlan(7)) = HardPlan(6)
      /\ HardPlan(8) # <<>> /\ Head(HardPlan(8)) = "prune" /\ Tail(HardPlan(8)) = HardPlan(7)
      /\ HardPlan(9) # <<>> /\ Head(HardPlan(9)) = "write" /\ Tail(HardPlan(9)) = HardPlan(8)
      /\ HardPlan(10) # <<>> /\ Head(HardPlan(10)) = "kill" /\ Tail(HardPlan(10)) = HardPlan(9)
      /\ HardPlan(11) # <<>> /\ Head(HardPlan(11)) = "move" /\ Tail(HardPlan(11)) = HardPlan(10)
  BY DEF HardPlan
<1>3. /\ HardPlan(0) \in Seq(Phases) /\ Len(HardPlan(0)) = 0
      /\ HardPlan(1) \in Seq(Phases) /\ Len(HardPlan(1)) = 1
      /\ HardPlan(2) \in Seq(Phases) /\ Len(HardPlan(2)) = 2
      /\ HardPlan(3) \in Seq(Phases) /\ Len(HardPlan(3)) = 3
      /\ HardPlan(4) \in Seq(Phases) /\ Len(HardPlan(4)) = 4
      /\ HardPlan(5) \in Seq(Phases) /\ Len(HardPlan(5)) = 5
      /\ HardPlan(6) \in Seq(Phases) /\ Len(HardPlan(6)) = 6
      /\ HardPlan(7) \in Seq(Phases) /\ Len(HardPlan(7)) = 7
      /\ HardPlan(8) \in Seq(Phases) /\ Len(HardPlan(8)) = 8
      /\ HardPlan(9) \in Seq(Phases) /\ Len(HardPlan(9)) = 9
      /\ HardPlan(10) \in Seq(Phases) /\ Len(HardPlan(10)) = 10
      /\ HardPlan(11) \in Seq(Phases) /\ Len(HardPlan(11)) = 11
  BY DEF HardPlan, Phases
<1>4. 0..11 = {0, 1, 2, 3, 4, 5, 6, 7, 8, 9, 10, 11}
  OBVIOUS
<1> QED
  BY <1>1, <1>2, <1>3, <1>4

-----------------------------------------------------------------------------
(* reset --hard.                                                           *)

\* The files of the tree.
Wanted == {p \in Path : run.target[p] # None}

\* A file that is not tracked and in nothing's way.
Safe(p) == Local(p) /\ ~Has(was.index, p) /\ ~InTheWay(p)

\* The index and HEAD, with k phases left.
HardFrame(k) ==
  /\ was.index \in IndexType
  /\ run.new = FromTree(run.target) /\ run.files \subseteq Wanted
  /\ k <= 10 => head = run.target
  /\ k >= 6 => index = was.index
  /\ k \in {0, 2, 3, 4} => index = run.new

\* What is left of a phase: nothing that is safe is removed.
HardTodo(k) ==
  /\ k \in {4, 7, 10} => \A q \in run.todo, p \in Path : Safe(p) => p # q /\ p \notin Under(q)
  /\ k = 9 => run.todo \subseteq run.files
  /\ k = 8 => \A q \in run.todo : Has(was.index, q) /\ run.target[q] = None
  /\ k = 3 => run.todo \subseteq Wanted

\* The work tree: what is no file of the tree was there; what was clean goes
\* while the first pass prunes; the second takes away every file that is where
\* one of the tree has its directory before it writes them all, but for those
\* that a file further up keeps from being written.
HardFiles(k) ==
  /\ \A p \in Path : IsFile(wt, p) /\ run.target[p] = None => wt[p] = was.wt[p]
  /\ \A p \in Path : Safe(p) => wt[p] \in {was.wt[p], run.target[p]} \ {None}
  /\ k <= 8 => \A p \in Path : run.target[p] = None /\ IsFile(wt, p) /\ wt[p] = Last(was.index, p)
                               => k = 8 /\ p \in run.todo
  /\ k <= 4 => \A p \in Wanted : \A d \in Parent(p) : IsFile(wt, d) => k = 4 /\ d \in run.todo
  /\ k <= 3 => \A p \in Wanted : \/ wt[p] = run.target[p] \/ (k = 3 /\ p \in run.todo)
                                \/ \E d \in Above(p) \ Parent(p) : IsFile(wt, d)

HardState(k) == HardFrame(k) /\ HardTodo(k) /\ HardFiles(k)

\* It fails at once, or in the end, or has k phases left.
HardInv == run.op = "reset-hard" =>
  \/ run.plan \in {<<"move", "fail">>, <<"fail">>} /\ run.outcome = "running"
  \/ run.plan = <<>> /\ run.outcome = "failed"
  \/ \E k \in 0..11 : run.plan = HardPlan(k) /\ HardState(k) /\ (k # 0 => run.outcome = "running")

\* Where a file is made, what is above it is a directory, and nothing is under it.
LEMMA MadeFacts ==
  ASSUME NEW w, NEW q \in Path, NEW c
  PROVE  /\ Made(w, q, c)[q] = c
         /\ \A p \in Path : p \in Above(q) => Made(w, q, c)[p] = Dir
         /\ \A p \in Path : p \in Under(q) => Made(w, q, c)[p] = None
         /\ \A p \in Path : p # q /\ p \notin Above(q) /\ p \notin Under(q) => Made(w, q, c)[p] = w[p]
  BY BelowFacts DEF Made

\* What is wanted and what is safe does not change while the command runs.
LEMMA SafeKept ==
  ASSUME SameTask, was' = was
  PROVE  /\ Wanted' = Wanted
         /\ \A p \in Path : Safe(p)' <=> Safe(p)
  BY DEF SameTask, Wanted, Safe, Local, InTheWay

\* The types that the steps of reset --hard need.
LEMMA HardTypes ==
  ASSUME IInv, run.op = "reset-hard", NEW k, HardFrame(k)
  PROVE  /\ wt \in WorkTreeType /\ Shaped(wt) /\ run.todo \subseteq Path /\ run \in RunType
         /\ run.target \in TreeType /\ was.index \in IndexType
         /\ \A p \in Path : run.new[p][0] = run.target[p]
         /\ \A p \in Path : Has(run.new, p) <=> p \in Wanted
         /\ \A p \in Path : ~Unmerged(run.new, p)
         /\ \A p, q \in Path : p \in Wanted /\ q \in Wanted => p \notin Under(q) /\ p \notin Above(q)
<1>1. /\ wt \in WorkTreeType /\ Shaped(wt) /\ run.todo \subseteq Path /\ run \in RunType
      /\ run.target \in TreeType /\ was.index \in IndexType /\ Legal(FromTree(run.target))
  BY DEF IInv, TypeOK, LegalInv, RunType, HardFrame
<1>2. /\ \A p \in Path : FromTree(run.target)[p][0] = run.target[p]
      /\ \A p \in Path, s \in Stage \ {0} : FromTree(run.target)[p][s] = None
  BY <1>1, FromTreeType
<1>3. \A p \in Path : Has(FromTree(run.target), p) <=> p \in Wanted
  BY <1>2, StageSet DEF Has, Wanted
<1>4. \A p \in Path : ~Unmerged(FromTree(run.target), p)
  BY <1>2 DEF Unmerged
<1>5. \A p, q \in Path : p \in Wanted /\ q \in Wanted => p \notin Under(q)
  BY <1>1, LegalTree DEF Wanted
<1> QED
  BY <1>1, <1>2, <1>3, <1>4, <1>5, BelowFacts DEF HardFrame

\* A path that is safe is a file, and is in the way of nothing.
LEMMA SafeFacts ==
  ASSUME IInv, run.op = "reset-hard", NEW k, HardState(k), NEW p \in Path, Safe(p)
  PROVE  /\ IsFile(wt, p) /\ ~Has(was.index, p)
         /\ \A q \in Above(p) \cup Under(p) : ~Has(was.index, q) /\ q \notin Wanted
<1>1. IsFile(was.wt, p) /\ ~Has(was.index, p) /\ ~InTheWay(p)
  BY DEF Safe, Local
<1>2. wt[p] \in {was.wt[p], run.target[p]} /\ wt[p] # None
  BY DEF HardState, HardFiles
<1>3. \A q \in Path : Has(run.new, q) <=> q \in Wanted
  BY HardTypes DEF HardState
<1>4. run.target[p] \in Content \cup {None}
  BY HardTypes DEF HardState, TreeType
<1> QED
  BY <1>1, <1>2, <1>3, <1>4, BelowFacts DEF InTheWay, IsFile

\* The directory of a path is above it.
LEMMA ParentFacts ==
  ASSUME NEW p \in Path, NEW d \in Parent(p)
  PROVE  d \in Path /\ d \in Above(p) /\ p \in Under(d)
  BY BelowFacts DEF Parent

\* Kill and Drop.
LEMMA HardRemoves ==
  ASSUME IInv, run.op = "reset-hard", NEW k \in {4, 7, 10}, HardState(k), NEW q \in run.todo, SameTask,
         run'.todo = run.todo \ {q}, wt' = RemoveAll(wt, q), UNCHANGED <<index, head, was>>
  PROVE  HardState(k)'
<1>1. /\ q \in Path
      /\ \A p \in Path : wt'[p] = IF p = q \/ p \in Under(q) THEN None ELSE wt[p]
  BY HardTypes DEF HardState, RemoveAll
<1>2. \A p \in Path : wt'[p] \in {wt[p], None} /\ ~IsFile(wt', q)
  BY <1>1, IndexAssumption DEF IsFile
<1>3. \A p \in Path : Safe(p) => wt'[p] = wt[p]
  BY <1>1 DEF HardState, HardTodo
<1>4. HardFrame(k)'
  BY DEF HardState, HardFrame, SameTask, Wanted
<1>5. HardTodo(k)'
  BY SafeKept, SameTask DEF HardState, HardTodo
<1>6. \A p \in Path : IsFile(wt', p) => IsFile(wt, p) /\ wt'[p] = wt[p] /\ p # q
  BY <1>2, IndexAssumption DEF IsFile
<1>7. run'.target = run.target
  BY DEF SameTask
<1>8. HardFiles(k)'
  <2>1. \A p \in Wanted : \A d \in Parent(p) : d \in Path
    BY ParentFacts DEF Wanted
  <2>2. k <= 4 => \A p \in Wanted : \A d \in Parent(p) : IsFile(wt', d) => k = 4 /\ d \in run'.todo
    BY <1>6, <2>1 DEF HardState, HardFiles
  <2>3. /\ \A p \in Path : IsFile(wt', p) /\ run.target[p] = None => wt'[p] = was.wt[p]
        /\ k <= 8 => \A p \in Path : run.target[p] = None /\ IsFile(wt', p) /\ wt'[p] = Last(was.index, p)
                               => k = 8 /\ p \in run'.todo
    BY <1>6 DEF HardState, HardFiles
  <2>4. \A p \in Path : Safe(p) => wt'[p] \in {was.wt[p], run.target[p]} \ {None}
    BY <1>3 DEF HardState, HardFiles
  <2>5. ~(k <= 3)
    OBVIOUS
  <2> QED
    BY <1>7, <2>2, <2>3, <2>4, <2>5, SafeKept DEF HardFiles
<1> QED
  BY <1>4, <1>5, <1>8 DEF HardState

\* Write.
LEMMA HardWrites ==
  ASSUME IInv, run.op = "reset-hard", HardState(9), NEW q \in run.todo, SameTask,
         run'.todo = run.todo \ {q}, wt' = CheckoutFile(wt, q, run.new[q][0]), UNCHANGED <<index, head, was>>
  PROVE  HardState(9)'
<1>1. q \in Wanted /\ q \in Path /\ run.new[q][0] = run.target[q]
  BY HardTypes DEF HardState, HardTodo, HardFrame
<1>2. \/ wt' = wt
      \/ /\ wt'[q] = run.target[q]
         /\ \A p \in Path : p \in Above(q) => wt'[p] = Dir
         /\ \A p \in Path : p \in Under(q) => wt'[p] = None
         /\ \A p \in Path : p # q /\ p \notin Above(q) /\ p \notin Under(q) => wt'[p] = wt[p]
  <2>1. wt' = wt \/ wt' = Made(wt, q, run.target[q])
    BY <1>1 DEF CheckoutFile
  <2>2. CASE wt' = Made(wt, q, run.target[q])
    <3> DEFINE m == Made(wt, q, run.target[q])
    <3>1. /\ m[q] = run.target[q] /\ \A p \in Path : p \in Above(q) => m[p] = Dir
          /\ \A p \in Path : p \in Under(q) => m[p] = None
          /\ \A p \in Path : p # q /\ p \notin Above(q) /\ p \notin Under(q) => m[p] = wt[p]
      BY <1>1, MadeFacts
    <3> HIDE DEF m
    <3>2. wt' = m
      BY <2>2 DEF m
    <3> QED
      BY <3>1, <3>2
  <2> QED
    BY <2>1, <2>2
<1>3. \A p \in Path : Safe(p) /\ p # q => wt'[p] = wt[p]
  BY <1>1, <1>2, SafeFacts, BelowFacts
<1>4. \A p \in Path : IsFile(wt', p) /\ p \notin Wanted => wt'[p] = wt[p]
  BY <1>1, <1>2, IndexAssumption DEF IsFile
<1>5. HardFrame(9)'
  BY DEF HardState, HardFrame, SameTask, Wanted
<1>6. HardTodo(9)'
  BY DEF HardState, HardTodo, SameTask
<1>7. run'.target = run.target
  BY DEF SameTask
<1>8. wt'[q] = wt[q] \/ wt'[q] = run.target[q]
  BY <1>1, <1>2
<1>9. \A p \in Path : Safe(p) => wt'[p] \in {was.wt[p], run.target[p]} \ {None}
  <2> SUFFICES ASSUME NEW p \in Path, Safe(p) PROVE wt'[p] \in {was.wt[p], run.target[p]} \ {None}
    OBVIOUS
  <2>1. wt[p] \in {was.wt[p], run.target[p]} \ {None}
    BY DEF HardState, HardFiles
  <2> QED
    BY <1>1, <1>3, <1>8, <2>1 DEF Wanted
<1>10. HardFiles(9)'
  <2>1. \A p \in Path : IsFile(wt', p) /\ run.target[p] = None => wt'[p] = was.wt[p]
    BY <1>4 DEF HardState, HardFiles, Wanted, IsFile
  <2> QED
    BY <1>7, <1>9, <2>1, SafeKept DEF HardFiles
<1> QED
  BY <1>5, <1>6, <1>10 DEF HardState

\* Prune.
LEMMA HardPrunes ==
  ASSUME IInv, run.op = "reset-hard", HardState(8), NEW q \in run.todo, SameTask,
         run'.todo = run.todo \ {q}, wt' = RemoveFileClean(wt, q), UNCHANGED <<index, head, was>>
  PROVE  HardState(8)'
<1>1. q \in Path /\ Has(was.index, q) /\ run.target[q] = None
  BY HardTypes DEF HardState, HardTodo
<1>2. \A p \in Path : /\ wt'[p] \in {wt[p], None}
                      /\ wt'[p] # wt[p] => p = q \/ p \in Under(q) \/ p \in Above(q)
                      /\ p = q => wt'[p] = None
  BY <1>1 DEF RemoveFileClean, RemoveAll, Parent
<1>3. \A p \in Path : Safe(p) => wt'[p] = wt[p]
  BY <1>1, <1>2, SafeFacts, BelowFacts
<1>4. HardFrame(8)'
  BY DEF HardState, HardFrame, SameTask, Wanted
<1>5. HardTodo(8)'
  BY DEF HardState, HardTodo, SameTask
<1>6. \A p \in Path : IsFile(wt', p) => IsFile(wt, p) /\ wt'[p] = wt[p] /\ p # q
  BY <1>2, IndexAssumption DEF IsFile
<1>7. run'.target = run.target
  BY DEF SameTask
<1>8. HardFiles(8)'
  BY <1>3, <1>6, <1>7, SafeKept DEF HardState, HardFiles
<1> QED
  BY <1>4, <1>5, <1>8 DEF HardState

\* WriteAll where no file is above: what is made is in no other file's way.
LEMMA HardMakes ==
  ASSUME IInv, run.op = "reset-hard", HardState(3), NEW q \in run.todo, SameTask,
         run'.todo = run.todo \ {q}, wt' = CheckoutFile(wt, q, run.new[q][0]), UNCHANGED <<index, head, was>>,
         ~\E d \in Above(q) : IsFile(wt, d)
  PROVE  HardState(3)'
<1>1. q \in Wanted /\ q \in Path /\ run.new[q][0] = run.target[q]
  BY HardTypes DEF HardState, HardTodo
<1>2. \A d \in Above(q) : ~IsFile(wt, d)
  OBVIOUS
<1>3. /\ wt'[q] = run.target[q]
      /\ \A p \in Path : p \in Above(q) => wt'[p] = Dir
      /\ \A p \in Path : p \in Under(q) => wt'[p] = None
      /\ \A p \in Path : p # q /\ p \notin Above(q) /\ p \notin Under(q) => wt'[p] = wt[p]
  <2> DEFINE m == Made(wt, q, run.target[q])
  <2>1. wt' = m
    BY <1>1, <1>2 DEF CheckoutFile
  <2>2. /\ m[q] = run.target[q] /\ \A p \in Path : p \in Above(q) => m[p] = Dir
        /\ \A p \in Path : p \in Under(q) => m[p] = None
        /\ \A p \in Path : p # q /\ p \notin Above(q) /\ p \notin Under(q) => m[p] = wt[p]
    BY <1>1, BelowFacts DEF Made
  <2> HIDE DEF m
  <2> QED
    BY <2>1, <2>2
<1>4. \A p \in Path : Safe(p) /\ p # q => wt'[p] = wt[p]
  BY <1>1, <1>3, SafeFacts, BelowFacts
<1>5. \A p \in Path : IsFile(wt', p) /\ p # q => wt'[p] = wt[p]
  BY <1>1, <1>3, IndexAssumption DEF IsFile
<1>6. HardFrame(3)'
  BY DEF HardState, HardFrame, SameTask, Wanted
<1>7. HardTodo(3)'
  BY SafeKept DEF HardState, HardTodo
<1>8. run'.target = run.target
  BY DEF SameTask
<1>9. wt'[q] = run.target[q] /\ run.target[q] # None
  BY <1>1, <1>3 DEF Wanted
<1>10. HardFiles(3)'
  <2>1. \A p \in Path : IsFile(wt', p) /\ run.target[p] = None => IsFile(wt, p) /\ wt'[p] = wt[p]
    BY <1>5, <1>9 DEF IsFile
  <2>2. \A p \in Path : Safe(p) => wt'[p] \in {was.wt[p], run.target[p]} \ {None}
    BY <1>4, <1>9 DEF HardState, HardFiles
  <2>3. \A p \in Wanted : \A d \in Parent(p) : ~IsFile(wt', d)
    <3>1. \A p \in Wanted : q \notin Parent(p)
      BY <1>1, HardTypes, ParentFacts DEF HardState, Wanted
    <3>2. \A p \in Wanted : \A d \in Parent(p) : d \in Path /\ ~IsFile(wt, d)
      BY ParentFacts DEF HardState, HardFiles, Wanted
    <3> QED
      BY <1>5, <3>1, <3>2 DEF IsFile
  <2>4. \A p \in Wanted : \/ wt'[p] = run.target[p] \/ p \in run'.todo
                         \/ \E d \in Above(p) \ Parent(p) : IsFile(wt', d)
    <3> SUFFICES ASSUME NEW p \in Wanted, p # q, p \notin run'.todo
                 PROVE  \/ wt'[p] = run.target[p]
                        \/ \E d \in Above(p) \ Parent(p) : IsFile(wt', d)
      BY <1>9
    <3>1. p \in Path /\ p \notin Above(q) /\ p \notin Under(q)
      BY <1>1, HardTypes DEF HardState, Wanted
    <3>2. wt'[p] = wt[p]
      BY <1>3, <3>1
    <3>3. wt[p] = run.target[p] \/ \E d \in Above(p) \ Parent(p) : IsFile(wt, d)
      BY DEF HardState, HardFiles
    <3>4. ASSUME NEW d \in Above(p) \ Parent(p), IsFile(wt, d) PROVE IsFile(wt', d)
      <4>1. d \in Path /\ d \notin Above(q) /\ p \in Under(d)
        BY <1>2, <3>1, <3>4, BelowFacts
      <4>2. d # q /\ d \notin Under(q)
        BY <1>1, <3>1, <4>1, BelowFacts, IndexAssumption DEF Under
      <4> QED
        BY <1>3, <3>4, <4>1, <4>2 DEF IsFile
    <3> QED
      BY <3>2, <3>3, <3>4
  <2>5. \A p \in Path : IsFile(wt', p) /\ run.target[p] = None =>
          wt'[p] = was.wt[p] /\ wt'[p] # Last(was.index, p)
    BY <2>1 DEF HardState, HardFiles
  <2>6. Wanted' = Wanted /\ run'.target = run.target /\ was' = was /\ \A p \in Path : Safe(p)' <=> Safe(p)
    BY <1>8, SafeKept
  <2> QED
    BY <2>2, <2>3, <2>4, <2>5, <2>6 DEF HardFiles
<1> QED
  BY <1>6, <1>7, <1>10 DEF HardState

\* WriteAll where one is: it is no file's directory, and all stays as it is.
LEMMA HardBarred ==
  ASSUME IInv, run.op = "reset-hard", HardState(3), NEW q \in run.todo, SameTask,
         run'.todo = run.todo \ {q}, wt' = CheckoutFile(wt, q, run.new[q][0]), UNCHANGED <<index, head, was>>,
         NEW d \in Above(q), IsFile(wt, d)
  PROVE  HardState(3)'
<1>1. q \in Wanted /\ q \in Path /\ run.new[q][0] = run.target[q]
  BY HardTypes DEF HardState, HardTodo
<1>2. d \notin Parent(q)
  BY <1>1 DEF HardState, HardFiles
<1>3. wt' = wt
  BY <1>2 DEF CheckoutFile
<1>4. HardFrame(3)' /\ HardTodo(3)'
  BY SafeKept DEF HardState, HardFrame, HardTodo, SameTask, Wanted
<1>5. \A p \in Wanted : \/ wt[p] = run.target[p] \/ p \in run'.todo
                       \/ \E e \in Above(p) \ Parent(p) : IsFile(wt, e)
  BY <1>2 DEF HardState, HardFiles
<1>6. HardFiles(3)'
  BY <1>3, <1>5, SafeKept DEF HardState, HardFiles, SameTask
<1> QED
  BY <1>4, <1>6 DEF HardState

LEMMA HardWritesAll ==
  ASSUME IInv, run.op = "reset-hard", HardState(3), NEW q \in run.todo, SameTask,
         run'.todo = run.todo \ {q}, wt' = CheckoutFile(wt, q, run.new[q][0]), UNCHANGED <<index, head, was>>
  PROVE  HardState(3)'
  BY HardMakes, HardBarred

\* What the phases of a reset go through.
LEMMA WorkOf ==
  ASSUME NEW r, NEW i, NEW w
  PROVE  /\ Work("kill", r, i, w) = Killed(i, w)
         /\ Work("write", r, i, w) = r.files
         /\ Work("writeAll", r, i, w) = {p \in Path : r.new[p][0] # None}
         /\ Work("prune", r, i, w) = {p \in Path : Has(i, p) /\ ~Has(r.new, p) /\ w[p] = Last(i, p)}
         /\ Work("drop", r, i, w) = Conflicted(i)
         /\ Work("put", r, i, w) = {p \in Path : r.staged[p] # None}
         /\ Work("mergeFile", r, i, w) = Conflicted(r.new)
         /\ Work("open", r, i, w) = {} /\ Work("save", r, i, w) = {} /\ Work("move", r, i, w) = {}
         /\ Work("fail", r, i, w) = {}
  BY DEF Work

\* A phase has nothing left to do, and the next begins.
LEMMA HardPasses ==
  ASSUME IInv, run.op = "reset-hard", NEW k \in {3, 4, 7, 8, 9, 10}, HardState(k), run.todo = {}, SameTask,
         run'.todo = IF k = 3 THEN {} ELSE Work(Head(HardPlan(k - 1)), run, index, wt),
         UNCHANGED <<index, wt, head, was>>
  PROVE  HardState(k - 1)'
<1>1. HardFrame(k - 1)'
  BY DEF HardState, HardFrame, SameTask, Wanted
<1>2. HardFiles(k)'
  BY SafeKept DEF HardState, HardFiles, SameTask
<1>3. run'.target = run.target
  BY DEF SameTask
<1>0. /\ k = 10 => k - 1 = 9 /\ Head(HardPlan(k - 1)) = "write"
      /\ k = 9 => k - 1 = 8 /\ Head(HardPlan(k - 1)) = "prune"
      /\ k = 8 => k - 1 = 7 /\ Head(HardPlan(k - 1)) = "drop"
      /\ k = 7 => k - 1 = 6
      /\ k = 4 => k - 1 = 3 /\ Head(HardPlan(k - 1)) = "writeAll"
      /\ k = 3 => k - 1 = 2
  BY HardPlanSteps
<1>4. CASE k = 10
  <2>1. run'.todo = run.files
    BY <1>0, <1>4, WorkOf
  <2> QED
    BY <1>1, <1>2, <1>4, <2>1 DEF HardState, HardTodo, HardFiles, SameTask
<1>5. CASE k = 9
  <2>1. run'.todo = {p \in Path : Has(was.index, p) /\ ~Has(run.new, p) /\ wt[p] = Last(was.index, p)}
    BY <1>0, <1>5, WorkOf DEF HardState, HardFrame
  <2>2. \A p \in Path : IsFile(wt, p) /\ wt[p] = Last(was.index, p) => Has(was.index, p)
    BY IndexAssumption DEF IsFile, Last
  <2>3. \A p \in Path : Has(run.new, p) <=> run.target[p] # None
    BY HardTypes DEF HardState, Wanted
  <2>4. HardTodo(8)'
    BY <1>3, <2>1, <2>3 DEF HardTodo
  <2>5. HardFiles(8)'
    BY <1>2, <1>3, <1>5, <2>1, <2>2, <2>3 DEF HardFiles
  <2> QED
    BY <1>1, <1>5, <2>4, <2>5 DEF HardState
<1>6. CASE k = 8
  <2>1. run'.todo = Conflicted(was.index)
    BY <1>0, <1>6, WorkOf DEF HardState, HardFrame
  <2>2. \A q \in run'.todo : q \in Path /\ Has(was.index, q)
    BY <2>1 DEF Conflicted, Unmerged, Has
  <2>3. \A q \in run'.todo, p \in Path : Safe(p) => p # q /\ p \notin Under(q)
    BY <2>2, SafeFacts, BelowFacts
  <2>4. HardTodo(7)'
    BY <2>3, SafeKept DEF HardTodo
  <2>5. HardFiles(7)'
    <3>1. \A p \in Path : run.target[p] = None /\ IsFile(wt, p) => wt[p] # Last(was.index, p)
      BY <1>6 DEF HardState, HardFiles
    <3> QED
      BY <1>2, <1>3, <1>6, <3>1 DEF HardFiles
  <2> QED
    BY <1>1, <1>6, <2>4, <2>5 DEF HardState
<1>7. CASE k = 7
  BY <1>1, <1>2, <1>7 DEF HardState, HardTodo, HardFiles
<1>8. CASE k = 4
  <2>1. run'.todo = Wanted
    <3>1. \A p \in Path : run.new[p][0] # None <=> run.target[p] # None
      BY HardTypes DEF HardState
    <3> QED
      BY <1>0, <1>8, <3>1, WorkOf DEF Wanted
  <2>2. HardTodo(3)'
    BY <2>1, SafeKept DEF HardTodo
  <2>3. HardFiles(3)'
    BY <1>2, <1>8, <2>1, SafeKept DEF HardState, HardFiles
  <2> QED
    BY <1>1, <1>8, <2>2, <2>3 DEF HardState
<1>9. CASE k = 3
  BY <1>1, <1>2, <1>9 DEF HardState, HardTodo, HardFiles
<1> QED
  BY <1>4, <1>5, <1>6, <1>7, <1>8, <1>9

\* Nothing safe is in the way of what the index wants, or where it wants it.
LEMMA SafeFromKill ==
  ASSUME IInv, run.op = "reset-hard", NEW k, HardState(k), NEW i \in {was.index, run.new},
         NEW q \in Killed(i, wt), NEW p \in Path, Safe(p)
  PROVE  p # q /\ p \notin Under(q)
<1>1. /\ IsFile(wt, p) /\ ~Has(was.index, p)
      /\ \A r \in Above(p) \cup Under(p) : ~Has(was.index, r) /\ r \notin Wanted
  BY SafeFacts
<1>2. \A r \in Path : Has(run.new, r) <=> r \in Wanted
  BY HardTypes DEF HardState
<1>3. q \in Path
  BY DEF Killed
<1>8. (IsFile(wt, q) /\ \E r \in Under(q) : Has(i, r)) \/ (Has(i, q) /\ IsDir(wt, q))
  BY ParentFacts DEF Killed
<1>4. ~IsDir(wt, p) /\ Exists(wt, p) /\ ~(IsFile(wt, q) /\ IsDir(wt, q))
  BY <1>1, IndexAssumption DEF IsFile, IsDir, Exists
<1>5. \A r \in Above(p) \cup Under(p) : ~Has(i, r)
  <2>1. CASE i = was.index
    BY <1>1, <2>1
  <2>2. CASE i = run.new
    BY <1>1, <1>2, <2>2, BelowFacts
  <2> QED
    BY <2>1, <2>2
<1>6. p # q
  BY <1>8, <1>4, <1>5
<1>7. ASSUME p \in Under(q) PROVE FALSE
  <2>1. q \in Above(p)
    BY <1>3, <1>7, BelowFacts
  <2>2. IsDir(wt, q)
    BY <1>4, <2>1, HardTypes DEF HardState, Shaped
  <2> QED
    BY <1>3, <1>4, <1>5, <1>8, <2>1, <2>2
<1> QED
  BY <1>6, <1>7

\* Move, Open and Save.
LEMMA HardMoves ==
  ASSUME IInv, run.op = "reset-hard", HardState(11), SameTask,
         run'.todo = Work(Head(HardPlan(10)), run, index, wt),
         head' = run.target, UNCHANGED <<index, wt, was>>
  PROVE  HardState(10)'
<1>1. run'.todo = Killed(was.index, wt)
  <2>1. Head(HardPlan(10)) = "kill" /\ index = was.index
    BY HardPlanSteps DEF HardState, HardFrame
  <2> QED
    BY <2>1, WorkOf
<1>2. \A q \in run'.todo, p \in Path : Safe(p) => p # q /\ p \notin Under(q)
  BY <1>1, SafeFromKill
<1>3. HardFrame(10)'
  BY DEF HardState, HardFrame, SameTask, Wanted
<1>4. HardTodo(10)'
  BY <1>2, SafeKept DEF HardTodo
<1>5. HardFiles(10)'
  BY SafeKept DEF HardState, HardFiles, SameTask
<1> QED
  BY <1>3, <1>4, <1>5 DEF HardState

\* The index is truncated.
LEMMA HardOpens ==
  ASSUME IInv, run.op = "reset-hard", NEW k \in {2, 6}, HardState(k), SameTask,
         run'.todo = Work(Head(HardPlan(k - 1)), run, Torn, wt), UNCHANGED <<wt, head, was>>
  PROVE  HardState(k - 1)'
<1>1. HardFrame(k - 1)'
  BY DEF HardState, HardFrame, SameTask, Wanted
<1>2. HardTodo(k - 1)'
  BY DEF HardTodo
<1>3. HardFiles(k - 1)'
  BY SafeKept DEF HardState, HardFiles, SameTask
<1> QED
  BY <1>1, <1>2, <1>3 DEF HardState

\* The index is written.
LEMMA HardSaves ==
  ASSUME IInv, run.op = "reset-hard", NEW k \in {1, 5}, HardState(k), SameTask, index' = run.new,
         k = 5 => run'.todo = Work(Head(HardPlan(4)), run, run.new, wt), UNCHANGED <<wt, head, was>>
  PROVE  HardState(k - 1)'
<1>1. HardFrame(k - 1)'
  BY DEF HardState, HardFrame, SameTask, Wanted
<1>2. CASE k = 1
  BY <1>1, <1>2, SafeKept DEF HardState, HardTodo, HardFiles, SameTask
<1>3. CASE k = 5
  <2>1. run'.todo = Killed(run.new, wt)
    <3>1. Head(HardPlan(4)) = "kill"
      BY HardPlanSteps
    <3> QED
      BY <1>3, <3>1, WorkOf
  <2>2. \A q \in run'.todo, p \in Path : Safe(p) => p # q /\ p \notin Under(q)
    BY <2>1, SafeFromKill
  <2>3. HardTodo(4)'
    BY <2>2, SafeKept DEF HardTodo
  <2>4. \A p \in Wanted : \A d \in Parent(p) : IsFile(wt, d) => d \in run'.todo
    <3> SUFFICES ASSUME NEW p \in Wanted, NEW d \in Parent(p), IsFile(wt, d) PROVE d \in run'.todo
      OBVIOUS
    <3>1. p \in Path /\ d \in Path /\ Has(run.new, p)
      BY HardTypes, ParentFacts DEF HardState, Wanted
    <3> QED
      BY <2>1, <3>1 DEF Killed
  <2>5. HardFiles(4)'
    BY <1>3, <2>4, SafeKept DEF HardState, HardFiles, SameTask
  <2> QED
    BY <1>1, <1>3, <2>3, <2>5 DEF HardState
<1> QED
  BY <1>2, <1>3

\* The start: the plan written out.
LEMMA HardStart ==
  ASSUME IInv, NEW t \in Trees, ResetMode("reset-hard", t)
  PROVE  HardInv'
<1> DEFINE rest == <<"kill", "writeAll", "open", "save">>
           n == FromTree(t)
<1>1. /\ t \in TreeType /\ n \in IndexType /\ Legal(n) /\ NoTree \in TreeType
      /\ Plain \in Options /\ ResetUpdate \in Options /\ "reset-hard" \in OpNames
      /\ <<"move", "fail">> \in Seq(Phases)
  BY TreeFacts, LegalNoTree, OptionTypes DEF OpNames, Phases
<1>2. CASE index = Torn
  <2>1. Begin("reset-hard", Plain, n, t, NoTree, NoTree, <<"move", "fail">>)
    BY <1>2 DEF ResetMode
  <2> DEFINE plan == <<"move", "fail">>
  <2>0. plan # <<>>
    OBVIOUS
  <2>1a. plan \in Seq(Phases)
    BY <1>1
  <2> HIDE DEF plan, n
  <2>2. run'.plan = plan /\ (run'.plan # <<>> => run'.outcome = "running")
    <3>1. Begin("reset-hard", Plain, n, t, NoTree, NoTree, plan)
      BY <2>1 DEF plan
    <3> QED
      BY <1>1, <2>1a, <3>1, BeginFields
  <2>4. run'.outcome = "running"
    BY <2>0, <2>2
  <2> QED
    BY <2>2, <2>4 DEF HardInv, plan
<1>3. CASE index # Torn
  <2> DEFINE plan == PlanOf(ResetUpdate, n, <<"move">>, rest)
  <2>1. plan \in {<<"move", "fail">>, HardPlan(11)}
    <3>1. CASE Refused(ResetUpdate, index, n, wt)
      <4>1. plan = <<"move">> \o <<"fail">>
        BY <3>1 DEF PlanOf
      <4> QED
        BY <4>1, Plans
    <3>2. CASE ~Refused(ResetUpdate, index, n, wt)
      <4>1. ReadTreePlan(ResetUpdate) = (<<"kill", "write", "prune">> \o <<"drop">>) \o <<"open", "save">>
        BY DEF ReadTreePlan, ResetUpdate
      <4>2. plan = <<"move">> \o (ReadTreePlan(ResetUpdate) \o rest)
        BY <3>2 DEF PlanOf
      <4>3. plan = <<"move", "kill", "write", "prune", "drop", "open", "save", "kill", "writeAll", "open", "save">>
        BY <4>1, <4>2, Plans
      <4>4. HardPlan(11) = <<"move", "kill", "write", "prune", "drop", "open", "save", "kill", "writeAll", "open", "save">>
        BY DEF HardPlan
      <4> QED
        BY <4>3, <4>4
    <3> QED
      BY <3>1, <3>2
  <2>2. Begin("reset-hard", ResetUpdate, n, t, NoTree, NoTree, plan)
    BY <1>3 DEF ResetMode, Starting
  <2>3. plan \in Seq(Phases) /\ plan # <<>>
    <3>1. <<"move", "fail">> # <<>>
      OBVIOUS
    <3>2. HardPlan(11) # <<>> /\ HardPlan(11) \in Seq(Phases)
      BY HardPlanSteps
    <3> HIDE DEF plan
    <3> QED
      BY <1>1, <2>1, <3>1, <3>2
  <2> HIDE DEF plan, n
  <2>4. /\ run'.op = "reset-hard" /\ run'.new = n /\ run'.plan = plan /\ run'.target = t
        /\ run'.files = (IF Acts(ResetUpdate) THEN ToCheckOut(ResetUpdate, index, n, wt) ELSE {})
        /\ run'.outcome = "running" /\ run'.todo = Work(Head(plan), run', index, wt)
        /\ was' = [index |-> index, wt |-> wt, head |-> head]
        /\ UNCHANGED <<index, wt, head>>
    BY <1>1, <2>2, <2>3, BeginFields
  <2>5. CASE plan = <<"move", "fail">>
    BY <2>4, <2>5 DEF HardInv
  <2>6. CASE plan = HardPlan(11)
    <3>1. index \in IndexType /\ wt \in WorkTreeType
      BY <1>3 DEF IInv, TypeOK
    <3>2. was'.index = index /\ was'.wt = wt
      BY <2>4
    <3>3. HardFrame(11)'
      <4>1. run'.files \subseteq {p \in Path : t[p] # None}
        BY <1>1, <2>4, FromTreeType DEF ToCheckOut, n
      <4> QED
        BY <2>4, <3>1, <3>2, <4>1 DEF HardFrame, Wanted, n
    <3>4. HardTodo(11)'
      BY DEF HardTodo
    <3>5. HardFiles(11)'
      BY <2>4, <3>2, IndexAssumption DEF HardFiles, Safe, Local, IsFile
    <3> QED
      BY <2>4, <2>6, <3>3, <3>4, <3>5 DEF HardInv, HardState
  <2> QED
    BY <2>1, <2>5, <2>6
<1> QED
  BY <1>2, <1>3

\* The numbers of the phases.
LEMMA Less ==
  /\ 11 - 1 = 10 /\ 10 - 1 = 9 /\ 9 - 1 = 8 /\ 8 - 1 = 7 /\ 7 - 1 = 6 /\ 6 - 1 = 5
  /\ 5 - 1 = 4 /\ 4 - 1 = 3 /\ 3 - 1 = 2 /\ 2 - 1 = 1 /\ 1 - 1 = 0
  OBVIOUS

\* What is left when one of them is done.
LEMMA HardPlanLeft ==
  ASSUME NEW k \in 1..11
  PROVE  /\ k - 1 \in 0..11 /\ Tail(HardPlan(k)) = HardPlan(k - 1)
         /\ k # 1 => HardPlan(k - 1) # <<>>
<1>1. ASSUME k = 1 PROVE Tail(HardPlan(1)) = HardPlan(0) /\ k - 1 = 0
  BY <1>1, HardPlanSteps, Less
<1>2. ASSUME k = 2 PROVE Tail(HardPlan(2)) = HardPlan(1) /\ k - 1 = 1 /\ HardPlan(1) # <<>>
  BY <1>2, HardPlanSteps, Less
<1>3. ASSUME k = 3 PROVE Tail(HardPlan(3)) = HardPlan(2) /\ k - 1 = 2 /\ HardPlan(2) # <<>>
  BY <1>3, HardPlanSteps, Less
<1>4. ASSUME k = 4 PROVE Tail(HardPlan(4)) = HardPlan(3) /\ k - 1 = 3 /\ HardPlan(3) # <<>>
  BY <1>4, HardPlanSteps, Less
<1>5. ASSUME k = 5 PROVE Tail(HardPlan(5)) = HardPlan(4) /\ k - 1 = 4 /\ HardPlan(4) # <<>>
  BY <1>5, HardPlanSteps, Less
<1>6. ASSUME k = 6 PROVE Tail(HardPlan(6)) = HardPlan(5) /\ k - 1 = 5 /\ HardPlan(5) # <<>>
  BY <1>6, HardPlanSteps, Less
<1>7. ASSUME k = 7 PROVE Tail(HardPlan(7)) = HardPlan(6) /\ k - 1 = 6 /\ HardPlan(6) # <<>>
  BY <1>7, HardPlanSteps, Less
<1>8. ASSUME k = 8 PROVE Tail(HardPlan(8)) = HardPlan(7) /\ k - 1 = 7 /\ HardPlan(7) # <<>>
  BY <1>8, HardPlanSteps, Less
<1>9. ASSUME k = 9 PROVE Tail(HardPlan(9)) = HardPlan(8) /\ k - 1 = 8 /\ HardPlan(8) # <<>>
  BY <1>9, HardPlanSteps, Less
<1>10. ASSUME k = 10 PROVE Tail(HardPlan(10)) = HardPlan(9) /\ k - 1 = 9 /\ HardPlan(9) # <<>>
  BY <1>10, HardPlanSteps, Less
<1>11. ASSUME k = 11 PROVE Tail(HardPlan(11)) = HardPlan(10) /\ k - 1 = 10 /\ HardPlan(10) # <<>>
  BY <1>11, HardPlanSteps, Less
<1>12. k \in {1, 2, 3, 4, 5, 6, 7, 8, 9, 10, 11} /\ k - 1 \in 0..11
  OBVIOUS
<1> QED
  BY <1>1, <1>2, <1>3, <1>4, <1>5, <1>6, <1>7, <1>8, <1>9, <1>10, <1>11, <1>12

\* A step of a reset that has k phases left, and does not fail.
LEMMA HardProgress ==
  ASSUME IInv, run.op = "reset-hard", NEW k \in 0..11, run.plan = HardPlan(k), HardState(k),
         k # 0 => run.outcome = "running", Next, ~Commands, ~Crash, ~Stop("failed")
  PROVE  \E j \in 0..11 : run'.plan = HardPlan(j) /\ HardState(j)' /\ (j # 0 => run'.outcome = "running")
<1>1. /\ run \in RunType /\ run.todo \subseteq Path /\ \A p \in Path : ~Unmerged(run.new, p)
  BY HardTypes DEF HardState
<1>3. 0..11 = {0, 1, 2, 3, 4, 5, 6, 7, 8, 9, 10, 11}
  OBVIOUS
<1>4. CASE FileSteps
  <2>1. PICK q \in run.todo : Kill(q) \/ Write(q) \/ WriteAll(q) \/ Prune(q) \/ Drop(q) \/ Put(q)
                       \/ MergeFile(q) \/ CleanUp(q)
    BY <1>4 DEF FileSteps
  <2>2. \A phase : At(phase) => k # 0 /\ Head(HardPlan(k)) = phase
    BY HardPlanSteps DEF At
  <2>3. /\ k # 0 => Head(HardPlan(k)) \in {"save", "open", "writeAll", "kill", "drop", "prune", "write", "move"}
        /\ Head(HardPlan(k)) = "kill" => k \in {0, 4, 10}
        /\ Head(HardPlan(k)) = "drop" => k \in {0, 7}
        /\ Head(HardPlan(k)) = "prune" => k \in {0, 8}
        /\ Head(HardPlan(k)) = "write" => k \in {0, 9}
        /\ Head(HardPlan(k)) = "writeAll" => k \in {0, 3}
    BY <1>3, HardPlanSteps
  <2>4. PICK w : /\ Done(run, q, w)
                 /\ \/ w = RemoveAll(wt, q) /\ k \in {4, 7, 10}
                    \/ w = CheckoutFile(wt, q, run.new[q][0]) /\ k \in {3, 9}
                    \/ w = RemoveFileClean(wt, q) /\ k = 8
    <3>1. CASE Kill(q) \/ Drop(q)
      BY <2>2, <2>3, <3>1 DEF Kill, Drop
    <3>2. CASE Write(q) \/ WriteAll(q)
      BY <1>1, <2>2, <2>3, <3>2 DEF Write, WriteAll
    <3>3. CASE Prune(q)
      BY <2>2, <2>3, <3>3 DEF Prune
    <3>4. CASE Put(q) \/ MergeFile(q) \/ CleanUp(q)
      <4>1. At("put") \/ At("mergeFile") \/ At("clean")
        BY <3>4 DEF Put, MergeFile, CleanUp
      <4>2. Head(HardPlan(k)) \in {"put", "mergeFile", "clean"} /\ k # 0
        BY <2>2, <4>1
      <4> QED
        BY <2>3, <4>2
    <3> QED
      BY <2>1, <3>1, <3>2, <3>3, <3>4
  <2>5. /\ SameTask /\ run'.plan = run.plan /\ run'.todo = run.todo \ {q} /\ run'.outcome = run.outcome
        /\ wt' = w /\ UNCHANGED <<index, head, was>>
    BY <1>1, <2>4, DoneFields
  <2>6. HardState(k)'
    BY <2>4, <2>5, HardRemoves, HardWrites, HardPrunes, HardWritesAll
  <2> QED
    BY <2>5, <2>6
<1>5. CASE Pass
  <2>1. /\ run.plan # <<>> /\ Head(run.plan) \in Loops /\ run.todo = {} /\ run' = Passed(index, wt)
        /\ UNCHANGED <<index, wt, head, was>>
    BY <1>5 DEF Pass
  <2>2. k \in {3, 4, 7, 8, 9, 10}
    BY <1>3, <2>1, HardPlanSteps DEF Loops
  <2>3. k - 1 \in 0..11 /\ Tail(run.plan) = HardPlan(k - 1) /\ HardPlan(k - 1) # <<>>
    <3>1. k \in 1..11 /\ (k = 1 => k \notin {2, 3, 4, 5, 6, 7, 8, 9, 10})
      BY <2>2
    <3>2. k - 1 \in 0..11 /\ Tail(HardPlan(k)) = HardPlan(k - 1) /\ (k # 1 => HardPlan(k - 1) # <<>>)
      BY <3>1, HardPlanLeft
    <3> QED
      BY <2>2, <3>1, <3>2
  <2>4. /\ SameTask /\ run'.plan = HardPlan(k - 1) /\ run'.outcome = "running"
        /\ run'.todo = Work(Head(HardPlan(k - 1)), run, index, wt)
    BY <1>1, <2>1, <2>3, PassedFields
  <2>5. k = 3 => run'.todo = {}
    <3>1. Head(HardPlan(2)) = "open"
      BY HardPlanSteps
    <3> QED
      BY <2>4, <3>1, WorkOf
  <2> QED
    BY <2>1, <2>2, <2>3, <2>4, <2>5, HardPasses
<1>6. CASE Open
  <2>1. run.plan # <<>> /\ Head(run.plan) = "open" /\ run' = Passed(Torn, wt) /\ UNCHANGED <<wt, head, was>>
    BY <1>6 DEF Open, At
  <2>2. k \in {2, 6}
    BY <1>3, <2>1, HardPlanSteps
  <2>3. k - 1 \in 0..11 /\ Tail(run.plan) = HardPlan(k - 1) /\ HardPlan(k - 1) # <<>>
    <3>1. k \in 1..11 /\ (k = 1 => k \notin {2, 3, 4, 5, 6, 7, 8, 9, 10})
      BY <2>2
    <3>2. k - 1 \in 0..11 /\ Tail(HardPlan(k)) = HardPlan(k - 1) /\ (k # 1 => HardPlan(k - 1) # <<>>)
      BY <3>1, HardPlanLeft
    <3> QED
      BY <2>2, <3>1, <3>2
  <2>4. /\ SameTask /\ run'.plan = HardPlan(k - 1) /\ run'.outcome = "running"
        /\ run'.todo = Work(Head(HardPlan(k - 1)), run, Torn, wt)
    BY <1>1, <2>1, <2>3, PassedFields
  <2> QED
    BY <2>1, <2>2, <2>3, <2>4, HardOpens
<1>7. CASE Save
  <2>1. /\ run.plan # <<>> /\ Head(run.plan) = "save" /\ run' = Passed(run.new, wt) /\ index' = run.new
        /\ UNCHANGED <<wt, head, was>>
    BY <1>7 DEF Save, At
  <2>2. k \in {1, 5}
    BY <1>3, <2>1, HardPlanSteps
  <2>3. k - 1 \in 0..11 /\ Tail(run.plan) = HardPlan(k - 1) /\ (k = 5 => HardPlan(k - 1) # <<>>)
    <3>1. k \in 1..11 /\ (k = 1 => k \notin {2, 3, 4, 5, 6, 7, 8, 9, 10})
      BY <2>2
    <3>2. k - 1 \in 0..11 /\ Tail(HardPlan(k)) = HardPlan(k - 1) /\ (k # 1 => HardPlan(k - 1) # <<>>)
      BY <3>1, HardPlanLeft
    <3> QED
      BY <2>2, <3>1, <3>2
  <2>4. /\ SameTask /\ run'.plan = HardPlan(k - 1)
        /\ k = 5 => run'.outcome = "running" /\ run'.todo = Work(Head(HardPlan(k - 1)), run, run.new, wt)
    BY <1>1, <2>1, <2>3, PassedFields
  <2>5. HardState(k - 1)'
    BY <2>1, <2>2, <2>4, HardSaves
  <2> QED
    BY <2>2, <2>3, <2>4, <2>5
<1>8. CASE Move
  <2>1. /\ run.plan # <<>> /\ Head(run.plan) = "move" /\ run' = Passed(index, wt) /\ head' = run.target
        /\ UNCHANGED <<index, wt, was>>
    BY <1>8 DEF Move, At
  <2>2. k = 11
    BY <1>3, <2>1, HardPlanSteps
  <2>3. 10 \in 0..11 /\ Tail(run.plan) = HardPlan(10) /\ HardPlan(10) # <<>>
    BY <1>3, <2>2, HardPlanSteps, Less
  <2>4. /\ SameTask /\ run'.plan = HardPlan(10) /\ run'.outcome = "running"
        /\ run'.todo = Work(Head(HardPlan(10)), run, index, wt)
    BY <1>1, <2>1, <2>3, PassedFields
  <2> QED
    BY <2>1, <2>2, <2>3, <2>4, HardMoves
<1>9. CASE Unlink \/ Fail
  BY <1>3, <1>9, HardPlanSteps DEF Unlink, Fail, At
<1> QED
  BY <1>4, <1>5, <1>6, <1>7, <1>8, <1>9 DEF Next

\* So at every step, of other commands too.
LEMMA HardNext == IInv /\ HardInv /\ [Next]_vars => HardInv'
<1> SUFFICES ASSUME IInv, HardInv, [Next]_vars, run'.op = "reset-hard" PROVE HardInv'
  BY DEF HardInv
<1>1. run \in RunType
  BY DEF IInv, TypeOK
<1>2. CASE Commands
  BY <1>2, StartedBy, HardStart
<1>3. CASE Next /\ ~Commands
  <2>1. ~Crash /\ run.op = "reset-hard"
    BY <1>1, <1>3, CrashFields, StepKeepsTask
  <2>2. CASE run.plan \in {<<"move", "fail">>, <<"fail">>}
    <3>1. /\ <<"move", "fail">> # <<>> /\ Head(<<"move", "fail">>) = "move" /\ Tail(<<"move", "fail">>) = <<"fail">>
          /\ <<"fail">> # <<>> /\ Head(<<"fail">>) = "fail"
      OBVIOUS
    <3>2. \A phase : At(phase) => phase \in {"move", "fail"}
      BY <2>2, <3>1 DEF At
    <3>3. Move \/ Fail
      <4>1. ~FileSteps
        <5>1. ~At("kill") /\ ~At("write") /\ ~At("writeAll") /\ ~At("prune") /\ ~At("drop") /\ ~At("put")
              /\ ~At("mergeFile") /\ ~At("clean")
          BY <3>2
        <5> QED
          BY <5>1 DEF FileSteps, Kill, Write, WriteAll, Prune, Drop, Put, MergeFile, CleanUp
      <4>2. ~Pass
        BY <2>2, <3>1 DEF Pass, Loops
      <4> QED
        BY <1>3, <2>1, <3>2, <4>1, <4>2 DEF Next, Open, Save, Unlink
    <3>4. CASE Move
      <4>1. run.plan = <<"move", "fail">> /\ run' = Passed(index, wt)
        BY <2>2, <3>1, <3>4 DEF Move, At
      <4>2. run'.plan = <<"fail">> /\ run'.outcome = "running"
        BY <1>1, <3>1, <4>1, PassedFields
      <4> QED
        BY <4>2 DEF HardInv
    <3>5. CASE Fail
      <4>1. run'.plan = <<>> /\ run'.outcome = "failed"
        BY <1>1, <3>5, StopFields DEF Fail
      <4> QED
        BY <4>1 DEF HardInv
    <3> QED
      BY <3>3, <3>4, <3>5
  <2>3. CASE run.plan = <<>>
    BY <2>1, <2>3, <1>3 DEF Next, FileSteps, Kill, Write, WriteAll, Prune, Drop, Put, MergeFile, CleanUp,
       Pass, Open, Save, Unlink, Move, Fail, At
  <2>4. CASE Stop("failed")
    BY <1>1, <2>4, StopFields DEF HardInv
  <2>5. CASE \E k \in 0..11 : run.plan = HardPlan(k) /\ HardState(k) /\ (k # 0 => run.outcome = "running")
    BY <1>3, <2>1, <2>4, <2>5, HardProgress DEF HardInv
  <2> QED
    BY <2>1, <2>2, <2>3, <2>5 DEF HardInv
<1>4. CASE UNCHANGED vars
  <2>1. SameTask /\ UNCHANGED <<index, wt, head, was>> /\ run' = run
    BY <1>4 DEF vars, SameTask
  <2>2. ASSUME NEW k \in 0..11, HardState(k) PROVE HardState(k)'
    BY <2>1, <2>2, SafeKept DEF HardState, HardFrame, HardTodo, HardFiles, Wanted
  <2> QED
    BY <2>1, <2>2 DEF HardInv
<1> QED
  BY <1>2, <1>3, <1>4

\* After reset --hard, also of what a killed command left, index and HEAD are
\* the tree's; its files are as it has them, files of the old index that were
\* clean are gone, and files that neither has are as they were; but for a file
\* that a local one keeps from being made, further up than its directory
\* (reset.go:103, lsfiles.go:190-215).
THEOREM HardResetIsExact == Spec => []HardResetRestores
<1>1. Init => HardInv
  BY DEF Init, HardInv, Idle
<1>2. IInv /\ HardInv => HardResetRestores
  <2> SUFFICES ASSUME IInv, HardInv, Ended("reset-hard") PROVE HardResetRestores
    BY DEF HardResetRestores
  <2>1. run.op = "reset-hard" /\ run.outcome = "ok"
    BY DEF Ended
  <2>2. HardState(0)
    <3>1. <<"move", "fail">> # <<>> /\ <<"fail">> # <<>>
      OBVIOUS
    <3> QED
      BY <2>1 DEF HardInv
  <2>3. index = FromTree(run.target) /\ head = run.target
    BY <2>2 DEF HardState, HardFrame
  <2>4. \A p \in Path :
          /\ run.target[p] # None =>
               wt[p] = run.target[p] \/ \E d \in Above(p) \ Parent(p) : IsFile(wt, d)
          /\ run.target[p] = None /\ IsFile(wt, p) => wt[p] = was.wt[p] /\ wt[p] # Last(was.index, p)
          /\ Safe(p) => wt[p] \in {was.wt[p], run.target[p]} \ {None}
    <3>1. \A p \in Path : IsFile(wt, p) /\ run.target[p] = None => wt[p] = was.wt[p] /\ wt[p] # Last(was.index, p)
      BY <2>2 DEF HardState, HardFiles
    <3>2. \A p \in Wanted : wt[p] = run.target[p] \/ \E d \in Above(p) \ Parent(p) : IsFile(wt, d)
      <4>1. HardFiles(0)
        BY <2>2 DEF HardState
      <4>2. 0 <= 3 /\ 0 # 3
        OBVIOUS
      <4> QED
        BY <4>1, <4>2 DEF HardFiles
    <3>3. \A p \in Path : Safe(p) => wt[p] \in {was.wt[p], run.target[p]} \ {None}
      BY <2>2 DEF HardState, HardFiles
    <3> QED
      BY <3>1, <3>2, <3>3 DEF Wanted
  <2>5. \A p \in Wanted : \A d \in Above(p) : d \in Path /\ run.target[d] = None
    <3>1. /\ \A p \in Wanted : p \in Path
          /\ \A p, q \in Path : p \in Wanted /\ q \in Wanted => q \notin Above(p)
      BY <2>1, <2>2, HardTypes DEF HardState, Wanted
    <3> QED
      BY <3>1, BelowFacts DEF Wanted
  <2>6. \A p \in Wanted : wt[p] = run.target[p]
                         \/ \E d \in Above(p) \ Parent(p) : Local(d) /\ wt[d] = was.wt[d]
    BY <2>4, <2>5 DEF Wanted, Local, IsFile
  <2> QED
    BY <2>3, <2>4, <2>6 DEF HardResetRestores, Local, IsFile, Safe, Wanted
<1> QED
  BY <1>1, <1>2, Invariant, HardNext, PTL DEF Spec

-----------------------------------------------------------------------------
(* The careful commands: read-tree -u, checkout and merge.                 *)

\* What they do when the index is written.
After(op) ==
  CASE op = "checkout" -> <<"put", "open", "save", "move">>
    [] op = "merge-ff" -> <<"move">>
    [] op = "merge" -> <<"mergeFile">>
    [] OTHER -> <<>>

\* What is left of their plans: 9 is the start, and 4 to 1 is what checkout and
\* merge do when the index is written.
Course(op, k) ==
  CASE k = 0 -> <<>>
    [] k = 1 -> <<"move">>
    [] k = 2 -> <<"save", "move">>
    [] k = 3 -> <<"open", "save", "move">>
    [] k = 4 -> After(op)
    [] k = 5 -> <<"save">> \o After(op)
    [] k = 6 -> <<"open", "save">> \o After(op)
    [] k = 7 -> <<"prune", "open", "save">> \o After(op)
    [] k = 8 -> <<"write", "prune", "open", "save">> \o After(op)
    [] k = 9 -> <<"kill", "write", "prune", "open", "save">> \o After(op)

\* The index that was planned; checkout then puts staged changes into it.
Planned == IF run.op = "checkout" THEN FromTree(run.target) ELSE run.new

\* What the command has made sure of.
Decided ==
  /\ was.index \in IndexType /\ Legal(was.index) /\ Shaped(was.wt)
  /\ Conflicted(was.index) = {}
  /\ run.opt = MergeUpdate
  /\ ~Blocked(run.opt, was.index, Planned, was.wt)
  /\ run.files = ToCheckOut(run.opt, was.index, Planned, was.wt)
  /\ run.op # "merge" => \A p \in Path : ~Unmerged(run.new, p)
  /\ run.op = "checkout" =>
       \A p \in Path : run.staged[p] =
         IF \E s \in Stage : was.index[p][s] # None /\ was.index[p][s] = was.wt[p] /\ was.wt[p] # was.head[p]
         THEN was.wt[p] ELSE None
  /\ run.op = "merge-ff" =>
       \E fresh \in {FALSE} \cup {\A p \in Path : ~Has(was.index, p)} :
         /\ run.new = FFIndex(was.index, was.head, run.target, fresh)
         /\ ~FFBlocked(was.index, was.head, run.target, was.wt, fresh)
  /\ run.op = "merge" =>
       /\ run.new = ThreeIndex(MergeUpdate, run.base, was.head, run.target)
       /\ \A p \in Path : (\A s \in 1..3 : run.new[p][s] # None) /\ Local(p) => ~Has(was.index, p)

\* The index and HEAD.
CarefulFrame(k) ==
  /\ k >= 6 => index = was.index
  /\ k \in {0, 1} \/ (k = 4 /\ run.op = "merge") => index = run.new
  /\ head = IF k = 0 /\ run.op \in {"checkout", "merge-ff"} THEN run.target ELSE was.head
  /\ \A p \in Path : Has(run.new, p) <=> Has(Planned, p)
  /\ k >= 5 => run.new = Planned

\* What is left of a phase.
CarefulTodo(k) ==
  /\ k = 9 => run.todo \subseteq Killed(was.index, was.wt)
  /\ k = 8 => run.todo \subseteq run.files
  /\ k = 7 => \A q \in run.todo :
                Has(was.index, q) /\ ~Has(run.new, q) /\ IsFile(wt, q) /\ wt[q] = Last(was.index, q)
  /\ k = 4 /\ run.op = "checkout" => \A q \in run.todo : run.staged[q] # None
  /\ k = 4 /\ run.op = "merge" => run.todo \subseteq Conflicted(run.new)

\* No file that was there is lost, and none comes that the new index has not.
Spared ==
  /\ \A p \in Path : Local(p) /\ ~InTheWay(p) =>
       \/ wt[p] = was.wt[p]
       \/ wt[p] = Conflict /\ Unmerged(run.new, p) /\ ~Has(was.index, p)
  /\ \A p \in Path : ~Has(run.new, p) /\ IsFile(wt, p) => wt[p] = was.wt[p]

\* What the new index has is in the work tree when it is written, or is as it
\* was; what it has no more goes if it was clean; and what was staged is put back.
Carried(k) ==
  /\ k <= 8 /\ Legal(run.new) => \A p \in run.files :
       wt[p] = run.new[p][0] \/ Barred(p) \/ (k = 8 /\ p \in run.todo)
  /\ Legal(run.new) => \A p \in Path : run.new[p][0] # None /\ p \notin run.files =>
       wt[p] = run.new[p][0] \/ (run.new[p] = Planned[p] /\ wt[p] = was.wt[p])
  /\ k <= 7 => \A p \in Path : ~Has(run.new, p) /\ IsFile(wt, p) /\ wt[p] = Last(was.index, p)
                               => k = 7 /\ p \in run.todo
  /\ k <= 4 /\ run.op = "checkout" => \A p \in Path : run.staged[p] # None =>
       (k = 4 /\ p \in run.todo) \/ (run.new[p][0] = run.staged[p] /\ wt[p] = run.staged[p])

CarefulState(k) == Decided /\ CarefulFrame(k) /\ CarefulTodo(k) /\ Spared /\ Carried(k)

Places(op) == CASE op = "checkout" -> 0..9
                [] op = "merge" -> {0} \cup 4..9
                [] op = "merge-ff" -> {0, 1} \cup 5..9
                [] op = "read-tree" -> {0} \cup 5..9

\* A command that is careful does not touch the work tree, or has stopped, or
\* has come to one of these places.
CarefulInv == Careful =>
  \/ /\ wt = was.wt /\ head = was.head
     /\ \/ run.plan = <<"fail">> /\ run.outcome = "running"
        \/ run.op = "read-tree" /\ run.plan \in {<<"open", "save">>, <<"save">>, <<>>}
  \/ run.plan = <<>> /\ run.outcome \in {"failed", "panic"} /\ head = was.head /\ LocalKept
  \/ \E k \in Places(run.op) :
       /\ run.plan = Course(run.op, k) /\ CarefulState(k)
       /\ k # 0 => run.outcome = "running"

CarefulOps == {"checkout", "merge", "merge-ff", "read-tree"}

\* What follows the writing of the index is the end of a course.
LEMMA AfterFacts ==
  /\ \A op : After(op) \in Seq(Phases)
  /\ \A op \in CarefulOps : After(op) = CASE op = "merge-ff" -> Course(op, 1) [] op = "read-tree" -> Course(op, 0)
                                          [] OTHER -> Course(op, 4)
<1>1. /\ <<"put", "open", "save", "move">> \in Seq(Phases) /\ <<"move">> \in Seq(Phases)
      /\ <<"mergeFile">> \in Seq(Phases) /\ <<>> \in Seq(Phases)
  BY DEF Phases
<1> QED
  BY <1>1 DEF After, Course, CarefulOps

\* The phases of a course, and what comes after each.
LEMMA CourseSteps ==
  ASSUME NEW op \in CarefulOps
  PROVE  /\ Course(op, 0) = <<>>
         /\ Course(op, 1) # <<>> /\ Head(Course(op, 1)) = "move" /\ Tail(Course(op, 1)) = Course(op, 0)
         /\ Course(op, 2) # <<>> /\ Head(Course(op, 2)) = "save" /\ Tail(Course(op, 2)) = Course(op, 1)
         /\ Course(op, 3) # <<>> /\ Head(Course(op, 3)) = "open" /\ Tail(Course(op, 3)) = Course(op, 2)
         /\ op = "checkout" => /\ Course(op, 4) # <<>> /\ Head(Course(op, 4)) = "put"
                               /\ Tail(Course(op, 4)) = Course(op, 3)
         /\ op = "merge" => /\ Course(op, 4) # <<>> /\ Head(Course(op, 4)) = "mergeFile"
                            /\ Tail(Course(op, 4)) = Course(op, 0)
         /\ Course(op, 5) # <<>> /\ Head(Course(op, 5)) = "save" /\ Tail(Course(op, 5)) = After(op)
         /\ Course(op, 6) # <<>> /\ Head(Course(op, 6)) = "open" /\ Tail(Course(op, 6)) = Course(op, 5)
         /\ Course(op, 7) # <<>> /\ Head(Course(op, 7)) = "prune" /\ Tail(Course(op, 7)) = Course(op, 6)
         /\ Course(op, 8) # <<>> /\ Head(Course(op, 8)) = "write" /\ Tail(Course(op, 8)) = Course(op, 7)
         /\ Course(op, 9) # <<>> /\ Head(Course(op, 9)) = "kill" /\ Tail(Course(op, 9)) = Course(op, 8)
<1>1. /\ Course(op, 0) = <<>>
      /\ Course(op, 1) # <<>> /\ Head(Course(op, 1)) = "move" /\ Tail(Course(op, 1)) = Course(op, 0)
      /\ Course(op, 2) # <<>> /\ Head(Course(op, 2)) = "save" /\ Tail(Course(op, 2)) = Course(op, 1)
      /\ Course(op, 3) # <<>> /\ Head(Course(op, 3)) = "open" /\ Tail(Course(op, 3)) = Course(op, 2)
  BY DEF Course
<1>2. /\ op = "checkout" => /\ Course(op, 4) # <<>> /\ Head(Course(op, 4)) = "put"
                            /\ Tail(Course(op, 4)) = Course(op, 3)
      /\ op = "merge" => /\ Course(op, 4) # <<>> /\ Head(Course(op, 4)) = "mergeFile"
                         /\ Tail(Course(op, 4)) = Course(op, 0)
  BY DEF Course, After
<1> DEFINE c5 == <<"save">>
           c6 == <<"open", "save">>
           c7 == <<"prune", "open", "save">>
           c8 == <<"write", "prune", "open", "save">>
           c9 == <<"kill", "write", "prune", "open", "save">>
<1>3. /\ c5 \in Seq(Phases) /\ c5 # <<>> /\ Head(c5) = "save" /\ Tail(c5) = <<>>
      /\ c6 \in Seq(Phases) /\ c6 # <<>> /\ Head(c6) = "open" /\ Tail(c6) = c5
      /\ c7 \in Seq(Phases) /\ c7 # <<>> /\ Head(c7) = "prune" /\ Tail(c7) = c6
      /\ c8 \in Seq(Phases) /\ c8 # <<>> /\ Head(c8) = "write" /\ Tail(c8) = c7
      /\ c9 \in Seq(Phases) /\ c9 # <<>> /\ Head(c9) = "kill" /\ Tail(c9) = c8
  BY DEF Phases
<1>4. /\ Course(op, 5) = c5 \o After(op) /\ Course(op, 6) = c6 \o After(op) /\ Course(op, 7) = c7 \o After(op)
      /\ Course(op, 8) = c8 \o After(op) /\ Course(op, 9) = c9 \o After(op)
  BY DEF Course
<1> HIDE DEF c5, c6, c7, c8, c9
<1>5. After(op) \in Seq(Phases) /\ <<>> \o After(op) = After(op)
  BY AfterFacts
<1>5a. \A s \in Seq(Phases) : s # <<>> =>
         /\ s \o After(op) # <<>> /\ Head(s \o After(op)) = Head(s)
         /\ Tail(s \o After(op)) = Tail(s) \o After(op)
  BY <1>5, JoinedTail
<1>6. Course(op, 5) # <<>> /\ Head(Course(op, 5)) = "save" /\ Tail(Course(op, 5)) = After(op)
  BY <1>3, <1>4, <1>5, <1>5a
<1>7. Course(op, 6) # <<>> /\ Head(Course(op, 6)) = "open" /\ Tail(Course(op, 6)) = Course(op, 5)
  BY <1>3, <1>4, <1>5, <1>5a
<1>8. Course(op, 7) # <<>> /\ Head(Course(op, 7)) = "prune" /\ Tail(Course(op, 7)) = Course(op, 6)
  BY <1>3, <1>4, <1>5, <1>5a
<1>9. Course(op, 8) # <<>> /\ Head(Course(op, 8)) = "write" /\ Tail(Course(op, 8)) = Course(op, 7)
  BY <1>3, <1>4, <1>5, <1>5a
<1>10. Course(op, 9) # <<>> /\ Head(Course(op, 9)) = "kill" /\ Tail(Course(op, 9)) = Course(op, 8)
  BY <1>3, <1>4, <1>5, <1>5a
<1> QED
  BY <1>1, <1>2, <1>6, <1>7, <1>8, <1>9, <1>10

\* What was decided stays so while the command runs.
LEMMA DecidedKept ==
  ASSUME SameTask, was' = was
  PROVE  /\ Planned' = Planned /\ (Careful' <=> Careful)
         /\ \A p \in Path : (Local(p)' <=> Local(p)) /\ (InTheWay(p)' <=> InTheWay(p)) /\ (Barred(p)' <=> Barred(p))
         /\ Decided => Decided'
<1>1. /\ Planned' = Planned /\ (Careful' <=> Careful)
      /\ \A p \in Path : (Local(p)' <=> Local(p)) /\ (InTheWay(p)' <=> InTheWay(p)) /\ (Barred(p)' <=> Barred(p))
  BY DEF SameTask, Planned, Careful, Local, InTheWay, Barred
<1>2. Decided => Decided'
  BY <1>1 DEF SameTask, Decided
<1> QED
  BY <1>1, <1>2

\* The types that the steps of these commands need.
LEMMA CarefulTypes ==
  ASSUME IInv
  PROVE  /\ wt \in WorkTreeType /\ Shaped(wt) /\ was.wt \in WorkTreeType
         /\ run \in RunType /\ run.todo \subseteq Path /\ run.files \subseteq Path
         /\ run.new \in IndexType /\ Planned \in IndexType /\ run.staged \in TreeType
<1>1. /\ wt \in WorkTreeType /\ Shaped(wt) /\ was.wt \in WorkTreeType
      /\ run \in RunType /\ run.todo \subseteq Path /\ run.files \subseteq Path
      /\ run.new \in IndexType /\ run.target \in TreeType /\ run.staged \in TreeType
  BY DEF IInv, TypeOK, LegalInv, RunType
<1> QED
  BY <1>1, FromTreeType DEF Planned

\* The old index has one entry of a path, and no file that is a directory.
LEMMA OldIndex ==
  ASSUME Decided, NEW p \in Path, Has(was.index, p)
  PROVE  /\ was.index[p][0] # None /\ Last(was.index, p) = was.index[p][0] /\ Last(was.index, p) \in Content
         /\ \A s \in Stage \ {0} : was.index[p][s] = None
         /\ \A q \in Above(p) \cup Under(p) : ~Has(was.index, q)
<1>1. /\ was.index \in IndexType /\ Legal(was.index) /\ ~Unmerged(was.index, p)
  BY DEF Decided, Conflicted
<1>2. \A s \in Stage \ {0} : was.index[p][s] = None
  BY <1>1 DEF Unmerged
<1>3. was.index[p][0] # None
  BY <1>2, StageSet DEF Has
<1>4. Top(was.index, p) = 0
  BY <1>1, <1>2, TopType
<1>5. was.index[p][0] \in Content
  BY <1>1, <1>3, StageSet DEF IndexType
<1> QED
  BY <1>1, <1>2, <1>3, <1>4, <1>5 DEF Legal, Last

\* A file the command does not write is what the new index has of it, in the
\* old one, and a file; what it writes over a file that was changed is the same.
LEMMA Choices ==
  ASSUME IInv, Decided, NEW p \in Path
  PROVE  /\ Planned[p][0] # None /\ p \notin run.files =>
              IsFile(was.wt, p) /\ Has(was.index, p) /\ Last(was.index, p) = Planned[p][0]
         /\ p \in run.files => Planned[p][0] # None /\ Has(Planned, p)
         /\ p \in run.files /\ Local(p) => Planned[p][0] = was.wt[p]
<1> DEFINE i == was.index
           w == was.wt
           n == Planned
<1>1. /\ i \in IndexType /\ w \in WorkTreeType /\ n \in IndexType /\ run.opt.update /\ ~run.opt.reset
      /\ ~Blocked(run.opt, i, n, w) /\ run.files = ToCheckOut(run.opt, i, n, w)
  BY CarefulTypes DEF Decided, MergeUpdate
<1> HIDE DEF i, w, n
<1>2. p \in run.files <=> n[p][0] # None /\ (~Exists(w, p) \/ ~Has(i, p) \/ Last(i, p) # n[p][0])
  BY <1>1 DEF ToCheckOut
<1>3. n[p][0] # None => Has(n, p)
  BY StageSet DEF Has
<1>4. ASSUME n[p][0] # None, p \notin run.files
      PROVE  IsFile(w, p) /\ Has(i, p) /\ Last(i, p) = n[p][0]
  <2>1. Exists(w, p) /\ Has(i, p) /\ Last(i, p) = n[p][0]
    BY <1>2, <1>4
  <2>2. ~IsDir(w, p)
    <3> SUFFICES ASSUME IsDir(w, p) PROVE FALSE
      OBVIOUS
    <3>1. PICK s \in Stage : i[p][s] # None
      BY <2>1 DEF Has
    <3>2. i[p][s] \in Content /\ w[p] = Dir
      BY <1>1, <3>1 DEF IndexType, IsDir
    <3>3. p \in Modified(i, w, p)
      BY <3>1, <3>2, IndexAssumption DEF Modified
    <3> QED
      BY <1>1, <1>3, <1>4, <3>3 DEF Blocked
  <2> QED
    BY <1>1, <2>1, <2>2 DEF WorkTreeType, Exists, IsDir, IsFile
<1>5. ASSUME p \in run.files, IsFile(w, p), w[p] # Last(i, p)
      PROVE  n[p][0] = w[p]
  <2>1. n[p][0] # None /\ Exists(w, p)
    BY <1>2, <1>5, IndexAssumption DEF IsFile, Exists
  <2>2. CASE Has(i, p)
    BY <1>1, <1>2, <1>5, <2>1, <2>2 DEF Blocked
  <2>3. CASE ~Has(i, p)
    <3>1. p \in Others(i, w, p)
      BY <1>5, <2>3 DEF Others
    <3> QED
      BY <1>1, <2>1, <2>3, <3>1 DEF Blocked
  <2> QED
    BY <2>2, <2>3
<1> QED
  BY <1>2, <1>3, <1>4, <1>5 DEF i, w, n, Local

-----------------------------------------------------------------------------
(* A step within a phase.                                                  *)

\* Kill: nothing is that the new index keeps, or that was changed.
LEMMA CarefulKill ==
  ASSUME IInv, Careful, CarefulState(9), NEW q \in run.todo, SameTask,
         run'.todo = run.todo \ {q}, wt' = RemoveAll(wt, q), UNCHANGED <<index, head, was>>
  PROVE  CarefulState(9)'
<1>1. /\ q \in Path
      /\ \A p \in Path : wt'[p] = IF p = q \/ p \in Under(q) THEN None ELSE wt[p]
  BY CarefulTypes DEF RemoveAll
<1>2. \/ IsFile(was.wt, q) /\ \E r \in Under(q) : Has(was.index, r)
      \/ Has(was.index, q) /\ IsDir(was.wt, q)
  BY ParentFacts DEF CarefulState, CarefulTodo, Killed
<1>3. Decided /\ Shaped(was.wt)
  BY DEF CarefulState, Decided
<1>4. ASSUME NEW p \in Path, IsFile(was.wt, p), Has(was.index, p) \/ ~InTheWay(p)
      PROVE  wt'[p] = wt[p]
  <2>1. SUFFICES ASSUME p = q \/ p \in Under(q) PROVE FALSE
    BY <1>1
  <2>2. ~IsDir(was.wt, p) /\ Exists(was.wt, p)
    BY <1>4, IndexAssumption DEF IsFile, IsDir, Exists
  <2>3. Has(was.index, p) => \A r \in Above(p) \cup Under(p) : ~Has(was.index, r)
    BY <1>3, OldIndex
  <2>4. ~InTheWay(p) => \A r \in Above(p) \cup Under(p) : ~Has(was.index, r)
    BY DEF InTheWay
  <2>5. \A r \in Above(p) \cup Under(p) : ~Has(was.index, r)
    BY <1>4, <2>3, <2>4
  <2>6. CASE p = q
    BY <1>2, <2>2, <2>5, <2>6
  <2>7. CASE p \in Under(q)
    <3>1. q \in Above(p) /\ IsDir(was.wt, q)
      BY <1>1, <1>3, <2>2, <2>7, BelowFacts DEF Shaped
    <3>2. ~IsFile(was.wt, q)
      BY <3>1, IndexAssumption DEF IsFile, IsDir
    <3> QED
      BY <1>2, <2>5, <3>1, <3>2
  <2> QED
    BY <2>1, <2>6, <2>7
<1>5. \A p \in Path : IsFile(wt', p) => IsFile(wt, p) /\ wt'[p] = wt[p]
  BY <1>1, IndexAssumption DEF IsFile
<1>6. Decided' /\ Planned' = Planned
  BY <1>3, DecidedKept
<1>7. CarefulFrame(9)'
  BY <1>6 DEF CarefulState, CarefulFrame, SameTask
<1>8. CarefulTodo(9)'
  BY DEF CarefulState, CarefulTodo
<1>9. Spared'
  <2>1. \A p \in Path : Local(p) /\ ~InTheWay(p) => wt'[p] = wt[p]
    BY <1>4 DEF Local
  <2> QED
    BY <1>5, <2>1, DecidedKept DEF CarefulState, Spared, SameTask
<1>10. Carried(9)'
  <2>1. \A p \in Path : run.new[p][0] # None /\ p \notin run.files => wt'[p] = wt[p]
    BY <1>3, <1>4, Choices DEF CarefulState, CarefulFrame
  <2> QED
    BY <1>6, <2>1 DEF CarefulState, Carried, SameTask
<1> QED
  BY <1>6, <1>7, <1>8, <1>9, <1>10 DEF CarefulState

\* Write: what is written over a file that was changed is the same, and no
\* file of a legal index is in the way of another.
LEMMA CarefulWrite ==
  ASSUME IInv, Careful, CarefulState(8), NEW q \in run.todo, SameTask,
         run'.todo = run.todo \ {q}, wt' = CheckoutFile(wt, q, run.new[q][0]), UNCHANGED <<index, head, was>>
  PROVE  CarefulState(8)'
<1>1. /\ q \in Path /\ q \in run.files /\ run.new = Planned /\ Decided
      /\ run.new[q][0] # None /\ Has(run.new, q)
  BY CarefulTypes, Choices DEF CarefulState, CarefulTodo, CarefulFrame
<1> DEFINE c == run.new[q][0]
           m == Made(wt, q, c)
<1>2. /\ m[q] = c /\ \A p \in Path : p \in Above(q) => m[p] = Dir
      /\ \A p \in Path : p \in Under(q) => m[p] = None
      /\ \A p \in Path : p # q /\ p \notin Above(q) /\ p \notin Under(q) => m[p] = wt[p]
  <2>1. q \in Path
    BY <1>1
  <2> HIDE DEF c
  <2> QED
    BY <2>1, BelowFacts DEF Made
<1>3. \/ wt' = m
      \/ wt' = wt /\ \E d \in Above(q) : IsFile(wt, d) /\ d \notin Parent(q)
  BY DEF CheckoutFile
<1> HIDE DEF m
<1>4. \A p \in Path : p # q /\ p \notin Above(q) /\ p \notin Under(q) => wt'[p] = wt[p]
  BY <1>2, <1>3
<1>5. \A p \in Path : p # q /\ IsFile(wt', p) => IsFile(wt, p) /\ wt'[p] = wt[p]
  BY <1>2, <1>3, IndexAssumption DEF IsFile
<1>6. wt'[q] \in {wt[q], run.new[q][0]}
  BY <1>2, <1>3
<1>7. Legal(run.new) => \A p \in Path : run.new[p][0] # None => p \notin Above(q) /\ p \notin Under(q)
  BY <1>1, BelowFacts DEF Legal
<1>8. Decided' /\ Planned' = Planned
  BY <1>1, DecidedKept
<1>9. CarefulFrame(8)'
  BY <1>8 DEF CarefulState, CarefulFrame, SameTask
<1>10. CarefulTodo(8)'
  BY DEF CarefulState, CarefulTodo, SameTask
<1>11. Spared'
  <2>1. \A p \in Path : Local(p) /\ ~InTheWay(p) /\ p # q => wt'[p] = wt[p]
    BY <1>1, <1>4, BelowFacts DEF InTheWay
  <2>2. Local(q) => wt'[q] \in {wt[q], was.wt[q]}
    BY <1>1, <1>6, Choices
  <2>3. \A p \in Path : Local(p) /\ ~InTheWay(p) => wt'[p] = wt[p] \/ wt'[p] = was.wt[p]
    BY <2>1, <2>2
  <2> QED
    BY <1>1, <1>5, <2>3, DecidedKept DEF CarefulState, Spared, SameTask
<1>12. Carried(8)'
  <2>1. ASSUME Legal(run.new) PROVE wt'[q] = run.new[q][0] \/ Barred(q)
    <3> SUFFICES ASSUME NEW d \in Above(q), IsFile(wt, d), d \notin Parent(q) PROVE Barred(q)
      BY <1>2, <1>3
    <3>1. d \in Path /\ ~Has(run.new, d)
      BY <1>1, <2>1, BelowFacts DEF Legal
    <3>2. was.wt[d] = wt[d]
      BY <3>1 DEF CarefulState, Spared
    <3> QED
      BY <3>2 DEF Barred, IsFile
  <2>2. ASSUME Legal(run.new), NEW p \in run.files
        PROVE  wt'[p] = run.new[p][0] \/ Barred(p) \/ p \in run'.todo
    <3>1. CASE p = q
      BY <2>1, <2>2, <3>1
    <3>2. CASE p # q
      <4>1. p \in Path /\ run.new[p][0] # None
        BY <1>1, CarefulTypes, Choices
      <4>2. wt'[p] = wt[p]
        BY <1>4, <1>7, <2>2, <3>2, <4>1
      <4> QED
        BY <2>2, <3>2, <4>2 DEF CarefulState, Carried
    <3> QED
      BY <3>1, <3>2
  <2>3. ASSUME Legal(run.new), NEW p \in Path, run.new[p][0] # None, p \notin run.files
        PROVE  wt'[p] = wt[p]
    BY <1>1, <1>4, <1>7, <2>3
  <2>4. \A p \in Path : Barred(p)' <=> Barred(p)
    BY DecidedKept
  <2> QED
    BY <1>8, <2>2, <2>3, <2>4, CarefulTypes DEF CarefulState, Carried, SameTask
<1> QED
  BY <1>8, <1>9, <1>10, <1>11, <1>12 DEF CarefulState

\* Prune: only a clean file that the new index has not goes, and its directory.
LEMMA CarefulPrune ==
  ASSUME IInv, Careful, CarefulState(7), NEW q \in run.todo, SameTask,
         run'.todo = run.todo \ {q}, wt' = RemoveFileClean(wt, q), UNCHANGED <<index, head, was>>
  PROVE  CarefulState(7)'
<1>1. /\ q \in Path /\ Has(was.index, q) /\ ~Has(run.new, q) /\ IsFile(wt, q) /\ wt[q] = Last(was.index, q)
      /\ Decided /\ Planned = run.new
  BY CarefulTypes DEF CarefulState, CarefulTodo, CarefulFrame
<1>2. \A p \in Under(q) : p \in Path /\ wt[p] = None
  <2> SUFFICES ASSUME NEW p \in Under(q), wt[p] # None PROVE FALSE
    BY BelowFacts, <1>1
  <2>1. p \in Path /\ q \in Above(p)
    BY <1>1, BelowFacts
  <2>2. IsDir(wt, q)
    BY <2>1, CarefulTypes DEF Shaped, Exists
  <2> QED
    BY <1>1, <2>2, IndexAssumption DEF IsFile, IsDir
<1>3. \A p \in Above(q) : p \in Path /\ IsDir(wt, p)
  BY <1>1, CarefulTypes, BelowFacts, IndexAssumption DEF Shaped, Exists, IsFile
<1>4. wt'[q] = None
  BY <1>1 DEF RemoveFileClean, RemoveAll
<1>5. \A p \in Path : p # q => wt'[p] = wt[p] \/ (IsDir(wt, p) /\ wt'[p] = None)
  <2> TAKE p \in Path
  <2> HAVE p # q
  <2>1. CASE p \in Above(q)
    <3>1. wt'[p] \in {wt[p], None}
      BY <1>1 DEF RemoveFileClean, RemoveAll
    <3> QED
      BY <1>3, <2>1, <3>1
  <2>2. CASE p \in Under(q)
    <3>1. wt'[p] = None
      BY <1>1, <2>2 DEF RemoveFileClean, RemoveAll
    <3> QED
      BY <1>2, <2>2, <3>1
  <2>3. CASE p \notin Above(q) /\ p \notin Under(q)
    BY <1>1, <2>3 DEF RemoveFileClean, RemoveAll, Parent
  <2> QED
    BY <2>1, <2>2, <2>3
<1>6. \A p \in Path : IsFile(wt', p) => p # q /\ IsFile(wt, p) /\ wt'[p] = wt[p]
  BY <1>4, <1>5, IndexAssumption DEF IsFile
<1>7. \A p \in Path : p # q /\ wt[p] \in Content => wt'[p] = wt[p]
  BY <1>5, IndexAssumption DEF IsDir
<1>8. Decided' /\ Planned' = Planned
  BY <1>1, DecidedKept
<1>9. CarefulFrame(7)'
  BY <1>8 DEF CarefulState, CarefulFrame, SameTask
<1>10. CarefulTodo(7)'
  BY <1>7, CarefulTypes DEF CarefulState, CarefulTodo, SameTask, IsFile
<1>11. Spared'
  <2>1. ~Local(q)
    BY <1>1 DEF CarefulState, Spared, Local
  <2>2. \A p \in Path : Local(p) /\ ~InTheWay(p) => wt'[p] = wt[p]
    BY <1>7, <2>1, WorkTreeAssumption DEF CarefulState, Spared, Local, IsFile
  <2> QED
    BY <1>6, <2>2, DecidedKept DEF CarefulState, Spared, SameTask
<1>12. Carried(7)'
  <2>1. ASSUME Legal(run.new), NEW p \in run.files
        PROVE  wt'[p] = run.new[p][0] \/ Barred(p)
    <3>1. p \in Path /\ Has(run.new, p) /\ run.new[p][0] \in Content
      BY <1>1, CarefulTypes, Choices, StageSet DEF IndexType
    <3> QED
      BY <1>1, <1>7, <2>1, <3>1 DEF CarefulState, Carried
  <2>2. ASSUME NEW p \in Path, run.new[p][0] # None, p \notin run.files,
               wt[p] = run.new[p][0] \/ (run.new[p] = Planned[p] /\ wt[p] = was.wt[p])
        PROVE  wt'[p] = wt[p]
    <3>1. IsFile(was.wt, p) /\ run.new[p][0] \in Content
      BY <1>1, <2>2, CarefulTypes, Choices, StageSet DEF IndexType
    <3>2. p # q
      BY <1>1, <2>2, StageSet DEF Has
    <3> QED
      BY <1>7, <2>2, <3>1, <3>2 DEF IsFile
  <2>3. \A p \in Path : Barred(p)' <=> Barred(p)
    BY DecidedKept
  <2> QED
    BY <1>6, <1>8, <2>1, <2>2, <2>3, CarefulTypes DEF CarefulState, Carried, SameTask
<1> QED
  BY <1>8, <1>9, <1>10, <1>11, <1>12 DEF CarefulState

\* Where a file can be created, nothing else changes.
LEMMA Created ==
  ASSUME IInv, NEW q \in Path, CanCreate(q), NEW c
  PROVE  Made(wt, q, c)[q] = c /\ \A p \in Path : p # q => Made(wt, q, c)[p] = wt[p]
<1>1. \A p \in Under(q) : p \in Path /\ wt[p] = None
  <2> SUFFICES ASSUME NEW p \in Under(q), wt[p] # None PROVE FALSE
    BY BelowFacts
  <2>1. p \in Path /\ q \in Above(p)
    BY BelowFacts
  <2>2. IsDir(wt, q)
    BY <2>1, CarefulTypes DEF Shaped, Exists
  <2> QED
    BY <2>2 DEF CanCreate
<1>2. \A p \in Above(q) : wt[p] = Dir
  BY DEF CanCreate, IsDir
<1> QED
  BY <1>1, <1>2, MadeFacts

\* MergeFile: only a conflict of all three sides is merged.
LEMMA CarefulMerge ==
  ASSUME IInv, Careful, run.op = "merge", CarefulState(4), NEW q \in run.todo, SameTask, CanCreate(q),
         \A s \in 1..3 : run.new[q][s] # None,
         run'.todo = run.todo \ {q}, wt' = Made(wt, q, Conflict), UNCHANGED <<index, head, was>>
  PROVE  CarefulState(4)'
<1>1. /\ q \in Path /\ Unmerged(run.new, q) /\ Decided /\ (Local(q) => ~Has(was.index, q))
  BY CarefulTypes DEF CarefulState, CarefulTodo, Conflicted, Decided
<1>2. wt'[q] = Conflict /\ \A p \in Path : p # q => wt'[p] = wt[p]
  BY <1>1, Created
<1>3. Has(run.new, q) /\ (Legal(run.new) => run.new[q][0] = None)
  BY <1>1 DEF Has, Unmerged, Legal
<1>4. Decided' /\ Planned' = Planned
  BY <1>1, DecidedKept
<1>5. CarefulFrame(4)'
  BY <1>4 DEF CarefulState, CarefulFrame, SameTask
<1>6. CarefulTodo(4)'
  BY DEF CarefulState, CarefulTodo, SameTask
<1>7. Spared'
  BY <1>1, <1>2, <1>3, DecidedKept DEF CarefulState, Spared, SameTask, IsFile
<1>8. Carried(4)'
  <2>1. ASSUME Legal(run.new), NEW p \in run.files
        PROVE  wt'[p] = run.new[p][0] \/ Barred(p)
    <3>1. wt[p] = run.new[p][0] \/ Barred(p)
      BY <2>1 DEF CarefulState, Carried
    <3>2. p \in Path /\ Planned[p][0] # None /\ Planned = run.new
      BY <1>1, CarefulTypes, Choices DEF Planned
    <3> QED
      BY <1>2, <1>3, <2>1, <3>1, <3>2
  <2>2. ASSUME Legal(run.new), NEW p \in Path, run.new[p][0] # None
        PROVE  wt'[p] = wt[p]
    BY <1>2, <1>3, <2>2
  <2>3. \A p \in Path : Barred(p)' <=> Barred(p)
    BY DecidedKept
  <2>4. \A p \in Path : ~Has(run.new, p) => wt'[p] = wt[p]
    BY <1>2, <1>3
  <2> QED
    BY <1>4, <2>1, <2>2, <2>3, <2>4, CarefulTypes DEF CarefulState, Carried, SameTask, IsFile
<1> QED
  BY <1>4, <1>5, <1>6, <1>7, <1>8 DEF CarefulState

\* Put: where a staged change goes, the new index has a file and the work tree
\* room for it.
LEMMA CarefulPut ==
  ASSUME IInv, Careful, run.op = "checkout", CarefulState(4), NEW q \in run.todo, CanCreate(q),
         CanAdd(run.new, q, 0, FALSE, FALSE),
         Done([run EXCEPT !.new = Added(run.new, q, run.staged[q])], q, Made(wt, q, run.staged[q]))
  PROVE  CarefulState(4)' /\ run'.plan = run.plan /\ run'.outcome = run.outcome /\ run'.op = run.op
<1> DEFINE c == run.staged[q]
           n == Added(run.new, q, c)
<1>1. /\ q \in Path /\ c \in Content /\ Decided
  BY CarefulTypes DEF CarefulState, CarefulTodo, TreeType
<1>2. /\ run'.op = run.op /\ run'.opt = run.opt /\ run'.files = run.files /\ run'.staged = run.staged
      /\ run'.target = run.target /\ run'.base = run.base /\ run'.plan = run.plan
      /\ run'.outcome = run.outcome /\ run'.new = n /\ run'.todo = run.todo \ {q}
      /\ UNCHANGED <<index, head, was>>
  BY CarefulTypes DEF Done, RunType
<1>3. wt' = Made(wt, q, c)
  BY DEF Done
<1>4. wt'[q] = c /\ \A p \in Path : p # q => wt'[p] = wt[p]
  BY <1>1, <1>3, Created
<1>5. /\ run.new[q][0] # None /\ Has(run.new, q)
      /\ \A p \in Above(q) \cup Under(q) : p \in Path /\ ~Has(run.new, p)
  BY <1>1, BelowFacts, StageSet DEF CanAdd, Has
<1>6. /\ n[q][0] = c /\ \A s \in Stage \ {0} : n[q][s] = None
      /\ \A p \in Path : p # q => n[p] = run.new[p] \/ (n[p] = NoStages /\ ~Has(run.new, p))
  <2>1. n[q] = AtStage(0, c)
    BY <1>1, BelowFacts DEF Added
  <2>2. n[q][0] = c /\ \A s \in Stage \ {0} : n[q][s] = None
    BY <1>1, <2>1, AtStageType, StageSet
  <2>3. \A p \in Path : p # q => n[p] = run.new[p] \/ (n[p] = NoStages /\ ~Has(run.new, p))
    BY <1>5 DEF Added
  <2> QED
    BY <2>2, <2>3
<1> HIDE DEF n, c
<1>7. \A p \in Path : p # q => \A s \in Stage : n[p][s] = run.new[p][s]
  BY <1>6, NoStagesType DEF Has
<1>8. \A p \in Path : Has(n, p) <=> Has(run.new, p)
  <2>1. Has(n, q)
    BY <1>1, <1>6, StageSet, IndexAssumption DEF Has
  <2>2. \A p \in Path : p # q => (Has(n, p) <=> Has(run.new, p))
    BY <1>7 DEF Has
  <2> QED
    BY <1>5, <2>1, <2>2
<1>9. /\ Planned' = Planned /\ (Careful' <=> Careful)
      /\ \A p \in Path : (Local(p)' <=> Local(p)) /\ (InTheWay(p)' <=> InTheWay(p)) /\ (Barred(p)' <=> Barred(p))
  BY <1>2, <1>8, BelowFacts DEF Planned, Careful, Local, InTheWay, Barred
<1>10. \A p \in Path : ~Unmerged(run.new, p) /\ ~Unmerged(n, p)
  <2>1. \A p \in Path : ~Unmerged(run.new, p)
    BY <1>1 DEF Decided
  <2>2. ~Unmerged(n, q)
    BY <1>6 DEF Unmerged
  <2>3. \A p \in Path : p # q => ~Unmerged(n, p)
    BY <1>7, <2>1 DEF Unmerged
  <2> QED
    BY <2>1, <2>2, <2>3
<1>11. Decided'
  BY <1>1, <1>2, <1>9, <1>10 DEF Decided
<1>12. CarefulFrame(4)'
  BY <1>2, <1>8, <1>9 DEF CarefulState, CarefulFrame
<1>13. CarefulTodo(4)'
  BY <1>2 DEF CarefulState, CarefulTodo
<1>14. c = was.wt[q]
  BY <1>1, IndexAssumption DEF Decided, c
<1>15. Spared'
  <2>1. \A p \in Path : Local(p) /\ ~InTheWay(p) => wt'[p] = was.wt[p]
    BY <1>4, <1>10, <1>14 DEF CarefulState, Spared
  <2>2. \A p \in Path : ~Has(n, p) /\ IsFile(wt', p) => wt'[p] = was.wt[p]
    BY <1>4, <1>5, <1>8 DEF CarefulState, Spared, IsFile
  <2> QED
    BY <1>2, <1>9, <2>1, <2>2 DEF Spared
<1>16. Carried(4)'
  <2>1. Legal(run.new)
    BY DEF IInv, LegalInv
  <2>2. ASSUME NEW p \in run.files PROVE wt'[p] = n[p][0] \/ Barred(p)
    <3>1. p \in Path /\ (wt[p] = run.new[p][0] \/ Barred(p))
      BY <2>1, CarefulTypes DEF CarefulState, Carried
    <3> QED
      BY <1>4, <1>6, <1>7, <3>1, StageSet
  <2>3. ASSUME NEW p \in Path, n[p][0] # None, p \notin run.files
        PROVE  wt'[p] = n[p][0] \/ (n[p] = Planned[p] /\ wt'[p] = was.wt[p])
    <3>1. CASE p = q
      BY <1>4, <1>6, <3>1
    <3>2. CASE p # q
      <4>1. n[p][0] = run.new[p][0] /\ Has(n, p)
        BY <1>7, <2>3, <3>2, StageSet DEF Has
      <4>2. n[p] = run.new[p]
        BY <1>6, <1>8, <3>2, <4>1
      <4> QED
        BY <1>4, <2>1, <2>3, <3>2, <4>1, <4>2 DEF CarefulState, Carried
    <3> QED
      BY <3>1, <3>2
  <2>4. ASSUME NEW p \in Path, ~Has(n, p), IsFile(wt', p) PROVE wt'[p] # Last(was.index, p)
    <3>1. p # q /\ ~Has(run.new, p)
      BY <1>5, <1>8, <2>4
    <3> QED
      BY <1>4, <2>4, <3>1 DEF CarefulState, Carried, IsFile
  <2>5. ASSUME NEW p \in Path, run.staged[p] # None, p \notin run'.todo
        PROVE  n[p][0] = run.staged[p] /\ wt'[p] = run.staged[p]
    <3>1. CASE p = q
      BY <1>4, <1>6, <3>1 DEF c
    <3>2. CASE p # q
      BY <1>2, <1>4, <1>7, <2>5, <3>2, StageSet DEF CarefulState, Carried
    <3> QED
      BY <3>1, <3>2
  <2> QED
    BY <1>2, <1>9, <2>2, <2>3, <2>4, <2>5, CarefulTypes DEF Carried
<1> QED
  BY <1>2, <1>11, <1>12, <1>13, <1>15, <1>16 DEF CarefulState

-----------------------------------------------------------------------------
(* From one phase to the next.                                             *)

\* What does not touch the work tree spares it.
LEMMA SparedStays ==
  ASSUME Spared, SameTask, UNCHANGED <<wt, was>>
  PROVE  Spared'
  BY DecidedKept DEF Spared, SameTask

\* A phase is done, and the next begins: write, prune, open, save, put or
\* mergeFile, open, save, move.
LEMMA CarefulOnward ==
  ASSUME IInv, Careful, NEW k, NEW j, CarefulState(k), SameTask, UNCHANGED <<wt, was>>,
         \/ k = 9 /\ j = 8 /\ run'.todo = run.files /\ UNCHANGED <<index, head>>
         \/ /\ k = 8 /\ j = 7 /\ run.todo = {} /\ UNCHANGED <<index, head>>
            /\ run'.todo = {p \in Path : Has(index, p) /\ ~Has(run.new, p) /\ wt[p] = Last(index, p)}
         \/ k = 7 /\ j = 6 /\ run.todo = {} /\ UNCHANGED <<index, head>>
         \/ k = 6 /\ j = 5 /\ UNCHANGED head
         \/ /\ k = 5 /\ index' = run.new /\ UNCHANGED head
            /\ j = CASE run.op = "merge-ff" -> 1 [] run.op = "read-tree" -> 0 [] OTHER -> 4
            /\ run.op = "checkout" => run'.todo = {p \in Path : run.staged[p] # None}
            /\ run.op = "merge" => run'.todo = Conflicted(run.new)
         \/ k = 4 /\ j = 3 /\ run.op = "checkout" /\ run.todo = {} /\ UNCHANGED <<index, head>>
         \/ k = 4 /\ j = 0 /\ run.op = "merge" /\ run.todo = {} /\ UNCHANGED <<index, head>>
         \/ k = 3 /\ j = 2 /\ UNCHANGED head
         \/ k = 2 /\ j = 1 /\ index' = run.new /\ UNCHANGED head
         \/ k = 1 /\ j = 0 /\ run.op \in {"checkout", "merge-ff"} /\ UNCHANGED index /\ head' = run.target
  PROVE  CarefulState(j)'
<1>1. Decided /\ Spared /\ Decided' /\ Spared' /\ Planned' = Planned
  BY DecidedKept, SparedStays DEF CarefulState
<1>2. \A p \in Path : Barred(p)' <=> Barred(p)
  BY DecidedKept
<1>3. run.op \in {"read-tree", "checkout", "merge-ff", "merge"}
  BY DEF Careful
<1>4. CASE k = 9 /\ j = 8 /\ run'.todo = run.files /\ UNCHANGED <<index, head>>
  <2>1. CarefulFrame(8)'
    BY <1>1, <1>4 DEF CarefulState, CarefulFrame, SameTask
  <2>2. CarefulTodo(8)'
    BY <1>4 DEF CarefulTodo, SameTask
  <2>3. Carried(8)'
    BY <1>1, <1>4 DEF CarefulState, Carried, SameTask
  <2> QED
    BY <1>1, <1>4, <2>1, <2>2, <2>3 DEF CarefulState
<1>5. CASE /\ k = 8 /\ j = 7 /\ run.todo = {} /\ UNCHANGED <<index, head>>
           /\ run'.todo = {p \in Path : Has(index, p) /\ ~Has(run.new, p) /\ wt[p] = Last(index, p)}
  <2>0. run'.todo = {p \in Path : Has(was.index, p) /\ ~Has(run.new, p) /\ wt[p] = Last(was.index, p)}
    BY <1>5 DEF CarefulState, CarefulFrame
  <2>1. CarefulFrame(7)'
    BY <1>1, <1>5 DEF CarefulState, CarefulFrame, SameTask
  <2>2. CarefulTodo(7)'
    <3>1. \A q \in run'.todo : Has(was.index, q) /\ ~Has(run.new, q) /\ IsFile(wt, q) /\ wt[q] = Last(was.index, q)
      BY <1>1, <2>0, OldIndex DEF IsFile
    <3> QED
      BY <3>1 DEF CarefulTodo, SameTask
  <2>3. Carried(7)'
    <3>1. \A p \in Path : IsFile(wt, p) /\ wt[p] = Last(was.index, p) => Has(was.index, p)
      BY IndexAssumption DEF IsFile, Last
    <3>2. \A p \in Path : ~Has(run.new, p) /\ IsFile(wt, p) /\ wt[p] = Last(was.index, p) => p \in run'.todo
      BY <2>0, <3>1
    <3>3. Legal(run.new) => \A p \in run.files : wt[p] = run.new[p][0] \/ Barred(p)
      BY <1>5 DEF CarefulState, Carried
    <3> QED
      BY <1>1, <1>2, <1>5, <3>2, <3>3, CarefulTypes DEF CarefulState, Carried, SameTask
  <2> QED
    BY <1>1, <1>5, <2>1, <2>2, <2>3 DEF CarefulState
<1>6. CASE k = 7 /\ j = 6 /\ run.todo = {} /\ UNCHANGED <<index, head>>
  <2>1. CarefulFrame(6)'
    BY <1>1, <1>6 DEF CarefulState, CarefulFrame, SameTask
  <2>2. Carried(6)'
    BY <1>1, <1>2, <1>6, CarefulTypes DEF CarefulState, Carried, SameTask
  <2> QED
    BY <1>1, <1>6, <2>1, <2>2 DEF CarefulState, CarefulTodo
<1>7. CASE k = 6 /\ j = 5 /\ UNCHANGED head
  <2>1. CarefulFrame(5)'
    BY <1>1, <1>7 DEF CarefulState, CarefulFrame, SameTask
  <2>2. Carried(5)'
    BY <1>1, <1>2, <1>7, CarefulTypes DEF CarefulState, Carried, SameTask
  <2> QED
    BY <1>1, <1>7, <2>1, <2>2 DEF CarefulState, CarefulTodo
<1>8. CASE /\ k = 5 /\ index' = run.new /\ UNCHANGED head
           /\ j = CASE run.op = "merge-ff" -> 1 [] run.op = "read-tree" -> 0 [] OTHER -> 4
           /\ run.op = "checkout" => run'.todo = {p \in Path : run.staged[p] # None}
           /\ run.op = "merge" => run'.todo = Conflicted(run.new)
  <2>0. \/ j = 0 /\ run.op = "read-tree"
        \/ j = 1 /\ run.op = "merge-ff"
        \/ j = 4 /\ run.op \in {"checkout", "merge"}
    BY <1>3, <1>8
  <2>1. CarefulFrame(j)'
    BY <1>1, <1>8, <2>0 DEF CarefulState, CarefulFrame, SameTask
  <2>2. CarefulTodo(j)'
    BY <1>8, <2>0 DEF CarefulTodo, SameTask
  <2>3. Carried(j)'
    BY <1>1, <1>2, <1>8, <2>0, CarefulTypes DEF CarefulState, Carried, SameTask
  <2> QED
    BY <1>1, <2>1, <2>2, <2>3 DEF CarefulState
<1>9. CASE k = 4 /\ j = 3 /\ run.op = "checkout" /\ run.todo = {} /\ UNCHANGED <<index, head>>
  <2>1. CarefulFrame(3)'
    BY <1>1, <1>9 DEF CarefulState, CarefulFrame, SameTask
  <2>2. Carried(3)'
    BY <1>1, <1>2, <1>9, CarefulTypes DEF CarefulState, Carried, SameTask
  <2> QED
    BY <1>1, <1>9, <2>1, <2>2 DEF CarefulState, CarefulTodo
<1>10. CASE k = 4 /\ j = 0 /\ run.op = "merge" /\ run.todo = {} /\ UNCHANGED <<index, head>>
  <2>1. CarefulFrame(0)'
    BY <1>1, <1>10 DEF CarefulState, CarefulFrame, SameTask
  <2>2. Carried(0)'
    BY <1>1, <1>2, <1>10, CarefulTypes DEF CarefulState, Carried, SameTask
  <2> QED
    BY <1>1, <1>10, <2>1, <2>2 DEF CarefulState, CarefulTodo
<1>11. CASE k = 3 /\ j = 2 /\ UNCHANGED head
  <2>1. CarefulFrame(2)'
    BY <1>1, <1>11 DEF CarefulState, CarefulFrame, SameTask
  <2>2. Carried(2)'
    BY <1>1, <1>2, <1>11, CarefulTypes DEF CarefulState, Carried, SameTask
  <2> QED
    BY <1>1, <1>11, <2>1, <2>2 DEF CarefulState, CarefulTodo
<1>12. CASE k = 2 /\ j = 1 /\ index' = run.new /\ UNCHANGED head
  <2>1. CarefulFrame(1)'
    BY <1>1, <1>12 DEF CarefulState, CarefulFrame, SameTask
  <2>2. Carried(1)'
    BY <1>1, <1>2, <1>12, CarefulTypes DEF CarefulState, Carried, SameTask
  <2> QED
    BY <1>1, <1>12, <2>1, <2>2 DEF CarefulState, CarefulTodo
<1>13. CASE k = 1 /\ j = 0 /\ run.op \in {"checkout", "merge-ff"} /\ UNCHANGED index /\ head' = run.target
  <2>1. CarefulFrame(0)'
    BY <1>1, <1>13 DEF CarefulState, CarefulFrame, SameTask
  <2>2. Carried(0)'
    BY <1>1, <1>2, <1>13, CarefulTypes DEF CarefulState, Carried, SameTask
  <2> QED
    BY <1>1, <1>13, <2>1, <2>2 DEF CarefulState, CarefulTodo
<1> QED
  BY <1>4, <1>5, <1>6, <1>7, <1>8, <1>9, <1>10, <1>11, <1>12, <1>13

\* Which phase is where.
LEMMA PlaceOf ==
  ASSUME NEW op \in CarefulOps, NEW k \in Places(op), Course(op, k) # <<>>,
         NEW phase, phase = Head(Course(op, k))
  PROVE  /\ k # 0
         /\ \/ k = 9 /\ phase = "kill"
            \/ k = 8 /\ phase = "write"
            \/ k = 7 /\ phase = "prune"
            \/ k \in {3, 6} /\ phase = "open"
            \/ k \in {2, 5} /\ phase = "save"
            \/ k = 4 /\ op = "checkout" /\ phase = "put"
            \/ k = 4 /\ op = "merge" /\ phase = "mergeFile"
            \/ k = 1 /\ op \in {"checkout", "merge-ff"} /\ phase = "move"
         /\ k \in {2, 3} => op = "checkout"
<1>1. /\ 0..9 = {0, 1, 2, 3, 4, 5, 6, 7, 8, 9} /\ 4..9 = {4, 5, 6, 7, 8, 9} /\ 5..9 = {5, 6, 7, 8, 9}
  OBVIOUS
<1>2. /\ op = "checkout" => k \in {0, 1, 2, 3, 4, 5, 6, 7, 8, 9}
      /\ op = "merge" => k \in {0, 4, 5, 6, 7, 8, 9}
      /\ op = "merge-ff" => k \in {0, 1, 5, 6, 7, 8, 9}
      /\ op = "read-tree" => k \in {0, 5, 6, 7, 8, 9}
  BY <1>1 DEF Places
<1>3. op \in {"checkout", "merge", "merge-ff", "read-tree"}
  BY DEF CarefulOps
<1>4. k # 0
  BY CourseSteps
<1>5. CASE k \in {5, 6, 7, 8, 9}
  <2>1. k = 5 => phase = "save"
    BY CourseSteps
  <2>2. k = 6 => phase = "open"
    BY CourseSteps
  <2>3. k = 7 => phase = "prune"
    BY CourseSteps
  <2>4. k = 8 => phase = "write"
    BY CourseSteps
  <2>5. k = 9 => phase = "kill"
    BY CourseSteps
  <2> QED
    BY <1>5, <2>1, <2>2, <2>3, <2>4, <2>5
<1>6. CASE k = 4
  BY <1>2, <1>3, <1>6, CourseSteps
<1>7. CASE k \in {1, 2, 3}
  <2>1. k = 1 => phase = "move"
    BY CourseSteps
  <2>2. k = 2 => phase = "save"
    BY CourseSteps
  <2>3. k = 3 => phase = "open"
    BY CourseSteps
  <2>4. /\ k = 1 => op \in {"checkout", "merge-ff"}
        /\ k \in {2, 3} => op = "checkout"
    BY <1>2, <1>3
  <2> QED
    BY <1>7, <2>1, <2>2, <2>3, <2>4
<1> QED
  BY <1>2, <1>3, <1>4, <1>5, <1>6, <1>7

\* The places that follow.
LEMMA PlaceTypes ==
  ASSUME NEW op \in CarefulOps
  PROVE  /\ {0, 5, 6, 7, 8, 9} \subseteq Places(op)
         /\ op = "checkout" => {1, 2, 3, 4} \subseteq Places(op)
         /\ op = "merge" => 4 \in Places(op)
         /\ op = "merge-ff" => 1 \in Places(op)
  BY DEF Places, CarefulOps

\* One step of a file operation.
LEMMA CarefulFileStep ==
  ASSUME IInv, Careful, run.op \in CarefulOps, NEW k \in Places(run.op), run.plan = Course(run.op, k),
         CarefulState(k), FileSteps, ~Stop("failed"), ~Stop("panic")
  PROVE  CarefulState(k)' /\ run'.plan = run.plan /\ run'.outcome = run.outcome /\ run'.op = run.op
<1>1. PICK q \in run.todo : Kill(q) \/ Write(q) \/ WriteAll(q) \/ Prune(q) \/ Drop(q) \/ Put(q)
                     \/ MergeFile(q) \/ CleanUp(q)
  BY DEF FileSteps
<1>2. run \in RunType /\ q \in Path
  BY CarefulTypes
<1>3. \A phase : At(phase) => /\ run.plan # <<>> /\ Head(run.plan) = phase
  BY DEF At
<1>4. /\ ~At("writeAll") /\ ~At("drop") /\ ~At("clean")
      /\ At("kill") => k = 9
      /\ At("write") => k = 8
      /\ At("prune") => k = 7
      /\ At("put") => k = 4 /\ run.op = "checkout"
      /\ At("mergeFile") => k = 4 /\ run.op = "merge"
  BY <1>3, PlaceOf
<1>5. ASSUME NEW w, Done(run, q, w)
      PROVE  /\ SameTask /\ run'.plan = run.plan /\ run'.todo = run.todo \ {q} /\ run'.outcome = run.outcome
             /\ wt' = w /\ UNCHANGED <<index, head, was>> /\ run'.op = run.op
  BY <1>2, <1>5, DoneFields DEF SameTask
<1>6. CASE Kill(q)
  <2>1. k = 9 /\ Done(run, q, RemoveAll(wt, q))
    BY <1>4, <1>6 DEF Kill
  <2> QED
    BY <1>5, <2>1, CarefulKill
<1>7. CASE Write(q)
  <2>1. k = 8 /\ Done(run, q, CheckoutFile(wt, q, run.new[q][0]))
    BY <1>4, <1>7 DEF Write
  <2> QED
    BY <1>5, <2>1, CarefulWrite
<1>8. CASE Prune(q)
  <2>1. k = 7 /\ Done(run, q, RemoveFileClean(wt, q))
    BY <1>4, <1>8 DEF Prune
  <2> QED
    BY <1>5, <2>1, CarefulPrune
<1>9. CASE Put(q)
  <2>1. /\ k = 4 /\ run.op = "checkout" /\ CanAdd(run.new, q, 0, FALSE, FALSE) /\ CanCreate(q)
        /\ Done([run EXCEPT !.new = Added(run.new, q, run.staged[q])], q, Made(wt, q, run.staged[q]))
    BY <1>4, <1>9 DEF Put
  <2> QED
    BY <2>1, CarefulPut
<1>10. CASE MergeFile(q)
  <2>1. /\ k = 4 /\ run.op = "merge" /\ CanCreate(q) /\ (\A s \in 1..3 : run.new[q][s] # None)
        /\ Done(run, q, Made(wt, q, Conflict))
    BY <1>4, <1>10 DEF MergeFile
  <2> QED
    BY <1>5, <2>1, CarefulMerge
<1> QED
  BY <1>1, <1>4, <1>6, <1>7, <1>8, <1>9, <1>10 DEF WriteAll, Drop, CleanUp

\* One step of a command that has come to place k, and does not stop.
LEMMA CarefulProgress ==
  ASSUME IInv, Careful, run.op \in CarefulOps, NEW k \in Places(run.op), run.plan = Course(run.op, k),
         CarefulState(k), k # 0 => run.outcome = "running",
         Next, ~Commands, ~Crash, ~Stop("failed"), ~Stop("panic")
  PROVE  /\ run'.op = run.op
         /\ \E j \in Places(run.op) :
              run'.plan = Course(run.op, j) /\ CarefulState(j)' /\ (j # 0 => run'.outcome = "running")
<1> DEFINE op == run.op
<1>1. run \in RunType /\ op \in CarefulOps
  BY CarefulTypes
<1>2. CASE FileSteps
  BY <1>2, CarefulFileStep
<1>3. CASE Pass
  <2>1. /\ run.plan # <<>> /\ Head(run.plan) \in Loops /\ run.todo = {} /\ run' = Passed(index, wt)
        /\ UNCHANGED <<index, wt, head, was>>
    BY <1>3 DEF Pass
  <2>2. \/ k \in {7, 8, 9}
        \/ k = 4 /\ op \in {"checkout", "merge"}
    BY <1>1, <2>1, PlaceOf DEF Loops
  <2>j. PICK j : j = IF k = 9 THEN 8 ELSE IF k = 8 THEN 7 ELSE IF k = 7 THEN 6
                    ELSE IF op = "checkout" THEN 3 ELSE 0
    OBVIOUS
  <2>3. j \in Places(op) /\ Tail(run.plan) = Course(op, j) /\ (j # 0 => Course(op, j) # <<>>)
    <3>1. CASE k = 9
      BY <2>j, <1>1, <3>1, CourseSteps, PlaceTypes
    <3>2. CASE k = 8
      BY <2>j, <1>1, <3>2, CourseSteps, PlaceTypes
    <3>3. CASE k = 7
      BY <2>j, <1>1, <3>3, CourseSteps, PlaceTypes
    <3>4. CASE k = 4 /\ op \in {"checkout", "merge"}
      BY <2>j, <1>1, <3>4, CourseSteps, PlaceTypes
    <3> QED
      BY <2>2, <3>1, <3>2, <3>3, <3>4
  <2>4. /\ SameTask /\ run'.plan = Course(op, j) /\ run'.op = op
        /\ j # 0 => run'.outcome = "running" /\ run'.todo = Work(Head(Course(op, j)), run, index, wt)
    BY <1>1, <2>1, <2>3, PassedFields DEF SameTask
  <2>5. /\ k = 9 => j = 8 /\ run'.todo = run.files
        /\ k = 8 => /\ j = 7
                    /\ run'.todo = {p \in Path : Has(index, p) /\ ~Has(run.new, p) /\ wt[p] = Last(index, p)}
        /\ k = 7 => j = 6
        /\ k = 4 => j = IF op = "checkout" THEN 3 ELSE 0
    <3>1. k = 9 => j = 8 /\ j # 0 /\ Head(Course(op, 8)) = "write"
      BY <2>j, <1>1, CourseSteps
    <3>2. k = 8 => j = 7 /\ j # 0 /\ Head(Course(op, 7)) = "prune"
      BY <2>j, <1>1, CourseSteps
    <3>3. (k = 7 => j = 6) /\ (k = 4 => j = IF op = "checkout" THEN 3 ELSE 0)
      BY <2>j
    <3>4. k = 9 => run'.todo = run.files
      BY <2>4, <3>1, WorkOf
    <3>5. k = 8 => run'.todo = {p \in Path : Has(index, p) /\ ~Has(run.new, p) /\ wt[p] = Last(index, p)}
      BY <2>4, <3>2, WorkOf
    <3> QED
      BY <3>1, <3>2, <3>3, <3>4, <3>5
  <2>6. CarefulState(j)'
    <3>1. CASE k = 9
      BY <2>1, <2>4, <2>5, <3>1, CarefulOnward
    <3>2. CASE k = 8
      BY <2>1, <2>4, <2>5, <3>2, CarefulOnward
    <3>3. CASE k = 7
      BY <2>1, <2>4, <2>5, <3>3, CarefulOnward
    <3>4. CASE k = 4 /\ op = "checkout"
      BY <2>1, <2>4, <2>5, <3>4, CarefulOnward
    <3>5. CASE k = 4 /\ op = "merge"
      BY <2>1, <2>4, <2>5, <3>5, CarefulOnward
    <3> QED
      BY <2>2, <3>1, <3>2, <3>3, <3>4, <3>5
  <2> QED
    BY <2>3, <2>4, <2>6
<1>4. CASE Open
  <2>1. run.plan # <<>> /\ Head(run.plan) = "open" /\ run' = Passed(Torn, wt) /\ UNCHANGED <<wt, head, was>>
    BY <1>4 DEF Open, At
  <2>2. k \in {3, 6} /\ (k = 3 => op = "checkout")
    BY <1>1, <2>1, PlaceOf
  <2> DEFINE j == IF k = 6 THEN 5 ELSE 2
  <2>3. j \in Places(op) /\ Tail(run.plan) = Course(op, j) /\ Course(op, j) # <<>>
    <3>1. CASE k = 6
      <4>1. j = 5 /\ j \in Places(op)
        BY <1>1, <3>1, PlaceTypes
      <4> QED
        BY <1>1, <3>1, <4>1, CourseSteps
    <3>2. CASE k = 3
      <4>1. j = 2 /\ j \in Places(op)
        BY <1>1, <2>2, <3>2, PlaceTypes
      <4> QED
        BY <1>1, <3>2, <4>1, CourseSteps
    <3> QED
      BY <2>2, <3>1, <3>2
  <2>4. SameTask /\ run'.plan = Course(op, j) /\ run'.outcome = "running" /\ run'.op = op
    BY <1>1, <2>1, <2>3, PassedFields DEF SameTask
  <2>5. CarefulState(j)'
    BY <2>1, <2>2, <2>4, CarefulOnward
  <2> QED
    BY <2>3, <2>4, <2>5
<1>5. CASE Save
  <2>1. /\ run.plan # <<>> /\ Head(run.plan) = "save" /\ run' = Passed(run.new, wt) /\ index' = run.new
        /\ UNCHANGED <<wt, head, was>>
    BY <1>5 DEF Save, At
  <2>2. k \in {2, 5} /\ (k = 2 => op = "checkout")
    BY <1>1, <2>1, PlaceOf
  <2>j. PICK j : j = IF k = 2 THEN 1 ELSE CASE op = "merge-ff" -> 1 [] op = "read-tree" -> 0 [] OTHER -> 4
    OBVIOUS
  <2>3. j \in Places(op) /\ Tail(run.plan) = Course(op, j) /\ (j # 0 => Course(op, j) # <<>>)
    <3>1. CASE k = 2
      BY <2>j, <1>1, <2>2, <3>1, CourseSteps, PlaceTypes
    <3>2. CASE k = 5
      <4>1. Tail(run.plan) = After(op)
        BY <2>j, <1>1, <3>2, CourseSteps
      <4>2. CASE op = "merge-ff"
        BY <2>j, <1>1, <3>2, <4>1, <4>2, AfterFacts, CourseSteps, PlaceTypes
      <4>3. CASE op = "read-tree"
        BY <2>j, <1>1, <3>2, <4>1, <4>3, AfterFacts, CourseSteps, PlaceTypes
      <4>4. CASE op = "checkout"
        BY <2>j, <1>1, <3>2, <4>1, <4>4, AfterFacts, CourseSteps, PlaceTypes
      <4>5. CASE op = "merge"
        BY <2>j, <1>1, <3>2, <4>1, <4>5, AfterFacts, CourseSteps, PlaceTypes
      <4> QED
        BY <1>1, <4>2, <4>3, <4>4, <4>5 DEF CarefulOps
    <3> QED
      BY <2>2, <3>1, <3>2
  <2>4. /\ SameTask /\ run'.plan = Course(op, j) /\ run'.op = op
        /\ j # 0 => run'.outcome = "running" /\ run'.todo = Work(Head(Course(op, j)), run, run.new, wt)
    BY <1>1, <2>1, <2>3, PassedFields DEF SameTask
  <2>5. ASSUME k = 5
        PROVE  /\ op = "checkout" => run'.todo = {p \in Path : run.staged[p] # None}
               /\ op = "merge" => run'.todo = Conflicted(run.new)
    <3>1. ASSUME op = "checkout" PROVE j = 4 /\ Head(Course(op, 4)) = "put"
      BY <2>j, <1>1, <2>5, <3>1, CourseSteps
    <3>2. ASSUME op = "merge" PROVE j = 4 /\ Head(Course(op, 4)) = "mergeFile"
      BY <2>j, <1>1, <2>5, <3>2, CourseSteps
    <3> QED
      BY <2>4, <3>1, <3>2, WorkOf
  <2>6. CarefulState(j)'
    <3>1. CASE k = 2
      <4>1. j = 1
        BY <2>j, <3>1
      <4> QED
        BY <2>1, <2>4, <3>1, <4>1, CarefulOnward
    <3>2. CASE k = 5
      <4>1. j = CASE op = "merge-ff" -> 1 [] op = "read-tree" -> 0 [] OTHER -> 4
        BY <2>j, <3>2
      <4> QED
        BY <2>1, <2>4, <2>5, <3>2, <4>1, CarefulOnward
    <3> QED
      BY <2>2, <3>1, <3>2
  <2> QED
    BY <2>3, <2>4, <2>6
<1>6. CASE Move
  <2>1. /\ run.plan # <<>> /\ Head(run.plan) = "move" /\ run' = Passed(index, wt) /\ head' = run.target
        /\ UNCHANGED <<index, wt, was>>
    BY <1>6 DEF Move, At
  <2>2. k = 1 /\ op \in {"checkout", "merge-ff"}
    BY <1>1, <2>1, PlaceOf
  <2>3. 0 \in Places(op) /\ Tail(run.plan) = Course(op, 0)
    BY <1>1, <2>2, CourseSteps, PlaceTypes
  <2>4. SameTask /\ run'.plan = Course(op, 0) /\ run'.op = op
    BY <1>1, <2>1, <2>3, PassedFields DEF SameTask
  <2>5. CarefulState(0)'
    BY <2>1, <2>2, <2>4, CarefulOnward
  <2> QED
    BY <2>3, <2>4, <2>5
<1>7. CASE Unlink \/ Fail
  <2>1. At("unlink") \/ At("fail")
    BY <1>7 DEF Unlink, Fail
  <2> QED
    BY <1>1, <2>1, PlaceOf DEF At
<1> QED
  BY <1>2, <1>3, <1>4, <1>5, <1>6, <1>7 DEF Next

-----------------------------------------------------------------------------
(* The careful commands start.                                             *)

\* An index without conflicts gives a fast-forward none.
LEMMA ForwardStages ==
  ASSUME NEW i \in IndexType, Conflicted(i) = {}, NEW h \in TreeType, NEW m \in TreeType, NEW fresh,
         NEW p \in Path
  PROVE  ~Unmerged(FFIndex(i, h, m, fresh), p)
<1> SUFFICES ASSUME NEW s \in Stage \ {0} PROVE FFIndex(i, h, m, fresh)[p][s] = None
  BY DEF Unmerged
<1>1. m[p] \in Content \cup {None} /\ i[p][s] = None
  BY DEF Conflicted, Unmerged, TreeType
<1>2. AtStage(0, m[p])[s] = None /\ NoStages[s] = None
  BY <1>1, StageSet, AtStageType, NoStagesType
<1>3. Keep(i, p)[s] = None
  BY <1>1 DEF Keep
<1>4. FFIndex(i, h, m, fresh)[p] \in {AtStage(0, m[p]), NoStages, Keep(i, p)}
  BY DEF FFIndex
<1> QED
  BY <1>2, <1>3, <1>4

\* All three sides of a path are there.
ThreeSides(n, p) == \A s \in 1..3 : n[p][s] # None

\* A conflict of three files that the index has is at a file that is as the
\* index has it.
LEMMA MergeConflicts ==
  ASSUME NEW i, NEW w, NEW o \in TreeType, NEW a \in TreeType, NEW b \in TreeType,
         Legal(FromTree(o)), Legal(FromTree(a)), Legal(FromTree(b)),
         ~ThreeBlocked(i, o, a, b, w), NEW p \in Path,
         NEW n, n = ThreeIndex(MergeUpdate, o, a, b), ThreeSides(n, p), Has(i, p)
  PROVE  w[p] = Last(i, p)
<1>1. n[p] = IF \E d \in {p} \cup Above(p) : FileAndDir(o, a, b, d)
             THEN Sides(o[p], a[p], b[p]) ELSE ThreeStages(o, a, b, p)
  BY DEF ThreeIndex, MergeUpdate
<1>2. /\ o[p] \in Content \cup {None} /\ a[p] \in Content \cup {None} /\ b[p] \in Content \cup {None}
      /\ 1 \in Stage \ {0} /\ 2 \in Stage /\ 3 \in Stage /\ 0 \in Stage
  BY StageSet DEF TreeType
<1>3. AtStage(0, a[p])[1] = None /\ AtStage(0, b[p])[1] = None
  BY <1>2, AtStageType
<1>4. n[p][1] # None /\ n[p][2] # None /\ n[p][3] # None
  BY DEF ThreeSides
<1>5. n[p] = Sides(o[p], a[p], b[p])
  BY <1>1, <1>3, <1>4 DEF ThreeStages
<1>6. o[p] # None /\ a[p] # None /\ b[p] # None
  BY <1>2, <1>4, <1>5 DEF Sides
<1>7. ASSUME NEW t \in {o, a, b}
      PROVE  /\ t[p] # None /\ ~HasDir(t, p) /\ \A d \in Above(p) : t[d] = None
  <2>1. t \in TreeType /\ t[p] # None /\ Legal(FromTree(t))
    BY <1>6
  <2>2. \A q \in Path : FromTree(t)[q][0] = t[q]
    BY <2>1, FromTreeType
  <2>3. \A q \in Above(p) \cup Under(p) : ~Has(FromTree(t), q)
    BY <2>1, <2>2 DEF Legal
  <2>4. \A q \in Above(p) \cup Under(p) : t[q] = None
    BY <1>2, <2>2, <2>3, BelowFacts DEF Has
  <2> QED
    BY <2>1, <2>4 DEF HasDir
<1>8. ~\E d \in {p} \cup Above(p) : FileAndDir(o, a, b, d)
  BY <1>7 DEF FileAndDir
<1>9. ThreeStages(o, a, b, p) = Sides(o[p], a[p], b[p])
  BY <1>1, <1>5, <1>8
<1>10. a[p] # b[p] /\ o[p] # a[p] /\ o[p] # b[p]
  BY <1>3, <1>4, <1>6, <1>5, <1>9 DEF ThreeStages
<1>11. Contains(o, p) /\ Contains(b, p)
  BY <1>6 DEF Contains
<1> QED
  BY <1>6, <1>10, <1>11 DEF ThreeBlocked

\* What the plan of a careful command is.
LEMMA CarefulPlan ==
  ASSUME NEW op \in CarefulOps, NEW n
  PROVE  PlanOf(MergeUpdate, n, <<>>, After(op)) =
           IF Refused(MergeUpdate, index, n, wt) THEN <<"fail">> ELSE Course(op, 9)
<1>1. /\ <<"fail">> \in Seq(Phases) /\ After(op) \in Seq(Phases)
      /\ <<"kill", "write", "prune">> \in Seq(Phases) /\ <<"kill", "write", "prune", "open", "save">> \in Seq(Phases)
  BY AfterFacts DEF Phases
<1>2. \A s \in Seq(Phases) : <<>> \o s = s /\ s \o <<>> = s
  OBVIOUS
<1>3. ReadTreePlan(MergeUpdate) = (<<"kill", "write", "prune">> \o <<>>) \o <<"open", "save">>
  BY DEF ReadTreePlan, MergeUpdate
<1>4. ReadTreePlan(MergeUpdate) = <<"kill", "write", "prune", "open", "save">>
  BY <1>1, <1>2, <1>3, Plans
<1>5. <<"kill", "write", "prune", "open", "save">> \o After(op) \in Seq(Phases)
  BY <1>1
<1>6. Course(op, 9) = <<"kill", "write", "prune", "open", "save">> \o After(op)
  BY DEF Course
<1>7. CASE Refused(MergeUpdate, index, n, wt)
  BY <1>1, <1>2, <1>7 DEF PlanOf
<1>8. CASE ~Refused(MergeUpdate, index, n, wt)
  <2>1. PlanOf(MergeUpdate, n, <<>>, After(op)) = <<>> \o (ReadTreePlan(MergeUpdate) \o After(op))
    BY <1>8 DEF PlanOf
  <2> QED
    BY <1>2, <1>4, <1>5, <1>6, <1>8, <2>1
<1> QED
  BY <1>7, <1>8

\* A careful command that has what it needs has come to the first place.
LEMMA CarefulBegin ==
  ASSUME IInv, NEW op \in CarefulOps, NEW n \in IndexType, NEW target \in TreeType, NEW base \in TreeType,
         NEW staged \in TreeType, index \in IndexType, Legal(index),
         Begin(op, MergeUpdate, n, target, base, staged, PlanOf(MergeUpdate, n, <<>>, After(op))),
         Conflicted(index) = {} /\ op # "merge" => \A p \in Path : ~Unmerged(n, p),
         op = "checkout" => n = FromTree(target) /\ staged = StagedChanges,
         op = "merge-ff" =>
           \E fresh \in {FALSE} \cup {\A p \in Path : ~Has(index, p)} :
             n = FFIndex(index, head, target, fresh) /\ ~FFBlocked(index, head, target, wt, fresh),
         op = "merge" =>
           /\ n = ThreeIndex(MergeUpdate, base, head, target)
           /\ \A p \in Path : (\A s \in 1..3 : n[p][s] # None) /\ Has(index, p) => wt[p] = Last(index, p)
  PROVE  CarefulInv'
<1> DEFINE plan == PlanOf(MergeUpdate, n, <<>>, After(op))
<1>1. op \in OpNames /\ MergeUpdate \in Options
  BY OptionTypes DEF CarefulOps, OpNames
<1>2. plan = IF Refused(MergeUpdate, index, n, wt) THEN <<"fail">> ELSE Course(op, 9)
  BY CarefulPlan
<1>3. plan \in Seq(Phases) /\ plan # <<>>
  <2>1. <<"fail">> # <<>> /\ <<>> \in Seq(Phases) /\ After(op) \in Seq(Phases) /\ Course(op, 9) # <<>>
    BY AfterFacts, CourseSteps
  <2>2. plan \in Seq(Phases)
    BY <2>1, PlanType
  <2> QED
    BY <1>2, <2>1, <2>2
<1>4. Begin(op, MergeUpdate, n, target, base, staged, plan)
  OBVIOUS
<1> HIDE DEF plan
<1>5. /\ run'.op = op /\ run'.opt = MergeUpdate /\ run'.new = n
      /\ run'.files = (IF Acts(MergeUpdate) THEN ToCheckOut(MergeUpdate, index, n, wt) ELSE {})
      /\ run'.staged = staged /\ run'.target = target /\ run'.base = base
      /\ run'.plan = plan
      /\ run'.outcome = "running"
      /\ run'.todo = Work(Head(plan), run', index, wt)
      /\ was' = [index |-> index, wt |-> wt, head |-> head]
      /\ UNCHANGED <<index, wt, head>>
  BY <1>1, <1>3, <1>4, BeginFields
<1>6. /\ was'.index = index /\ was'.wt = wt /\ was'.head = head /\ wt' = wt /\ head' = head /\ index' = index
  BY <1>5
<1>7. CASE plan = <<"fail">>
  BY <1>5, <1>6, <1>7 DEF CarefulInv
<1>8. CASE plan = Course(op, 9) /\ ~Refused(MergeUpdate, index, n, wt)
  <2>1. Conflicted(index) = {} /\ ~Blocked(MergeUpdate, index, n, wt) /\ Acts(MergeUpdate)
    BY <1>8 DEF Refused, Acts, MergeUpdate
  <2>2. Planned' = n
    BY <1>5 DEF Planned
  <2>3. Decided'
    <3>1. /\ was'.index \in IndexType /\ Legal(was'.index) /\ Shaped(was'.wt) /\ Conflicted(was'.index) = {}
      BY <1>6, <2>1 DEF IInv, LegalInv
    <3>2. ~Blocked(run'.opt, was'.index, Planned', was'.wt)
          /\ run'.files = ToCheckOut(run'.opt, was'.index, Planned', was'.wt)
      BY <1>5, <1>6, <2>1, <2>2
    <3>3. run'.op # "merge" => \A p \in Path : ~Unmerged(run'.new, p)
      BY <1>5, <2>1
    <3>4. run'.op = "checkout" =>
            \A p \in Path : run'.staged[p] =
              IF \E s \in Stage : was'.index[p][s] # None /\ was'.index[p][s] = was'.wt[p] /\ was'.wt[p] # was'.head[p]
              THEN was'.wt[p] ELSE None
      BY <1>5, <1>6 DEF StagedChanges
    <3>5. run'.op = "merge-ff" =>
            \E fresh \in {FALSE} \cup {\A p \in Path : ~Has(was'.index, p)} :
              /\ run'.new = FFIndex(was'.index, was'.head, run'.target, fresh)
              /\ ~FFBlocked(was'.index, was'.head, run'.target, was'.wt, fresh)
      BY <1>5, <1>6
    <3>6. run'.op = "merge" =>
            /\ run'.new = ThreeIndex(MergeUpdate, run'.base, was'.head, run'.target)
            /\ \A p \in Path : (\A s \in 1..3 : run'.new[p][s] # None) /\ Local(p)' => ~Has(was'.index, p)
      BY <1>5, <1>6 DEF Local
    <3> QED
      BY <1>5, <3>1, <3>2, <3>3, <3>4, <3>5, <3>6 DEF Decided
  <2>4. CarefulFrame(9)'
    BY <1>5, <1>6, <2>2 DEF CarefulFrame
  <2>5. CarefulTodo(9)'
    <3>1. Head(plan) = "kill"
      BY <1>8, CourseSteps
    <3>2. run'.todo = Killed(index, wt)
      BY <1>5, <3>1 DEF Work
    <3> QED
      BY <1>6, <3>2 DEF CarefulTodo
  <2>6. Spared'
    BY <1>6 DEF Spared
  <2>7. Carried(9)'
    <3>1. \A p \in Path : run'.new[p][0] # None /\ p \notin run'.files =>
            run'.new[p] = Planned'[p] /\ wt'[p] = was'.wt[p]
      BY <1>5, <1>6, <2>2
    <3> QED
      BY <3>1 DEF Carried
  <2>8. 9 \in Places(op)
    BY PlaceTypes
  <2>9. run'.plan = Course(run'.op, 9) /\ CarefulState(9)' /\ 9 \in Places(run'.op) /\ run'.outcome = "running"
    BY <1>5, <1>8, <2>3, <2>4, <2>5, <2>6, <2>7, <2>8 DEF CarefulState
  <2> QED
    BY <2>9 DEF CarefulInv
<1> QED
  BY <1>2, <1>7, <1>8

\* One that does not is about to fail.
LEMMA CarefulFails ==
  ASSUME IInv, NEW op \in OpNames, NEW opt \in Options, NEW n \in IndexType, NEW target \in TreeType,
         NEW base \in TreeType, NEW staged \in TreeType,
         Begin(op, opt, n, target, base, staged, <<"fail">>)
  PROVE  CarefulInv'
<1> DEFINE plan == <<"fail">>
<1>1. plan \in Seq(Phases) /\ plan # <<>>
  BY PlanType
<1>2. Begin(op, opt, n, target, base, staged, plan)
  OBVIOUS
<1> HIDE DEF plan
<1>3. /\ run'.plan = plan /\ run'.outcome = "running" /\ was' = [index |-> index, wt |-> wt, head |-> head]
      /\ UNCHANGED <<index, wt, head>>
  BY <1>1, <1>2, BeginFields
<1> QED
  BY <1>3 DEF CarefulInv, plan

\* checkout, with -f or without.
LEMMA CarefulCheckout ==
  ASSUME IInv, NEW t \in Trees, NEW force \in BOOLEAN, CheckoutCommit(t, force)
  PROVE  CarefulInv'
<1>1. /\ t \in TreeType /\ FromTree(t) \in IndexType /\ NoTree \in TreeType
      /\ index \in IndexType /\ Legal(index) /\ StagedChanges \in TreeType
  BY TreeFacts, LegalNoTree, ReadyLegal, StagedType DEF CheckoutCommit
<1>2. /\ "checkout" \in OpNames /\ "checkout" \in CarefulOps
      /\ After("checkout") = <<"put", "open", "save", "move">>
  BY DEF OpNames, CarefulOps, After
<1>3. CASE force
  <2> DEFINE plan == PlanOf(ResetUpdate, FromTree(t), <<>>, After("checkout"))
  <2>1. Begin("checkout", ResetUpdate, FromTree(t), t, NoTree, StagedChanges, plan)
    BY <1>2, <1>3 DEF CheckoutCommit
  <2>2. plan \in Seq(Phases) /\ ResetUpdate \in Options
    BY PlanType, AfterFacts, OptionTypes
  <2> HIDE DEF plan
  <2>3. run'.opt = ResetUpdate
    BY <1>1, <1>2, <2>1, <2>2, BeginFields
  <2> QED
    BY <2>3 DEF CarefulInv, Careful, ResetUpdate
<1>4. CASE ~force
  <2>1. Begin("checkout", MergeUpdate, FromTree(t), t, NoTree, StagedChanges,
              PlanOf(MergeUpdate, FromTree(t), <<>>, After("checkout")))
    BY <1>2, <1>4 DEF CheckoutCommit
  <2>2. \A p \in Path : ~Unmerged(FromTree(t), p)
    BY <1>1, FromTreeType DEF Unmerged
  <2> QED
    BY <1>1, <1>2, <2>1, <2>2, CarefulBegin
<1> QED
  BY <1>3, <1>4

\* The fast-forward of a merge, which may be refused.
LEMMA CarefulForward ==
  ASSUME IInv, NEW t \in Trees, MergeForward(t)
  PROVE  CarefulInv'
<1>1. PICK fresh \in {FALSE} \cup {\A p \in Path : ~Has(index, p)} :
        LET n == FFIndex(index, head, t, fresh)
        IN Begin("merge-ff", MergeUpdate, n, t, head, NoTree,
                 IF FFBlocked(index, head, t, wt, fresh) THEN <<"fail">>
                 ELSE PlanOf(MergeUpdate, n, <<>>, <<"move">>))
  BY DEF MergeForward, FastForward
<1> DEFINE n == FFIndex(index, head, t, fresh)
<1>2. /\ index \in IndexType /\ Legal(index) /\ head \in TreeType /\ t \in TreeType /\ NoTree \in TreeType
  BY ReadyLegal, TreeFacts, LegalNoTree DEF MergeForward, FastForward, IInv, TypeOK
<1>3. n \in IndexType
  BY <1>2, FFIndexType
<1>4. /\ "merge-ff" \in OpNames /\ "merge-ff" \in CarefulOps /\ MergeUpdate \in Options
      /\ After("merge-ff") = <<"move">>
  BY OptionTypes DEF OpNames, CarefulOps, After
<1>5. CASE FFBlocked(index, head, t, wt, fresh)
  <2>1. Begin("merge-ff", MergeUpdate, n, t, head, NoTree, <<"fail">>)
    BY <1>1, <1>5
  <2> HIDE DEF n
  <2> QED
    BY <1>2, <1>3, <1>4, <2>1, CarefulFails
<1>6. CASE ~FFBlocked(index, head, t, wt, fresh)
  <2>1. Begin("merge-ff", MergeUpdate, n, t, head, NoTree, PlanOf(MergeUpdate, n, <<>>, After("merge-ff")))
    BY <1>1, <1>4, <1>6
  <2>2. Conflicted(index) = {} => \A p \in Path : ~Unmerged(n, p)
    BY <1>2, ForwardStages
  <2>3. \E f \in {FALSE} \cup {\A p \in Path : ~Has(index, p)} :
          n = FFIndex(index, head, t, f) /\ ~FFBlocked(index, head, t, wt, f)
    BY <1>6
  <2> HIDE DEF n
  <2> QED
    BY <1>2, <1>3, <1>4, <2>1, <2>2, <2>3, CarefulBegin
<1> QED
  BY <1>5, <1>6

\* The merge of three trees, which may be refused.
LEMMA CarefulTrees ==
  ASSUME IInv, NEW base \in Trees, NEW t \in Trees, MergeTrees(base, t)
  PROVE  CarefulInv'
<1> DEFINE n == ThreeIndex(MergeUpdate, base, head, t)
<1>1. /\ head \in TreeType /\ base \in TreeType /\ t \in TreeType /\ NoTree \in TreeType
      /\ Legal(FromTree(base)) /\ Legal(FromTree(head)) /\ Legal(FromTree(t))
  BY TreeFacts, LegalNoTree DEF IInv, TypeOK, LegalInv
<1>2. n \in IndexType
  BY <1>1, OptionTypes, ThreeIndexType
<1>3. /\ "merge" \in OpNames /\ "merge" \in CarefulOps /\ MergeUpdate \in Options
      /\ After("merge") = <<"mergeFile">>
  BY OptionTypes DEF OpNames, CarefulOps, After
<1>4. index \in IndexType /\ Legal(index)
  <2>1. Ready("merge")
    BY DEF MergeTrees, ThreeWay, Begin
  <2> QED
    BY <2>1, ReadyLegal
<1>5. CASE ThreeBlocked(index, base, head, t, wt)
  <2>1. Begin("merge", MergeUpdate, n, t, base, NoTree, <<"fail">>)
    BY <1>5 DEF MergeTrees, ThreeWay
  <2> HIDE DEF n
  <2> QED
    BY <1>1, <1>2, <1>3, <2>1, CarefulFails
<1>6. CASE ~ThreeBlocked(index, base, head, t, wt)
  <2>1. Begin("merge", MergeUpdate, n, t, base, NoTree, PlanOf(MergeUpdate, n, <<>>, After("merge")))
    BY <1>3, <1>6 DEF MergeTrees, ThreeWay
  <2>2. \A p \in Path : (\A s \in 1..3 : n[p][s] # None) /\ Has(index, p) => wt[p] = Last(index, p)
    <3> SUFFICES ASSUME NEW p \in Path, \A s \in 1..3 : n[p][s] # None, Has(index, p)
                 PROVE  wt[p] = Last(index, p)
      OBVIOUS
    <3>1. ThreeSides(n, p) /\ n = ThreeIndex(MergeUpdate, base, head, t)
      BY DEF ThreeSides
    <3> HIDE DEF n
    <3> QED
      BY <1>1, <1>6, <3>1, MergeConflicts
  <2>3. n = ThreeIndex(MergeUpdate, base, head, t)
    OBVIOUS
  <2> HIDE DEF n
  <2> QED
    BY <1>1, <1>2, <1>3, <1>4, <2>1, <2>2, <2>3, CarefulBegin
<1> QED
  BY <1>5, <1>6

\* read-tree without -u only writes the index.
LEMMA CarefulOneTree ==
  ASSUME IInv, NEW opt \in Options, NEW t \in Trees, OneTree(opt, t)
  PROVE  CarefulInv'
<1>1. /\ t \in TreeType /\ FromTree(t) \in IndexType /\ NoTree \in TreeType /\ Plain \in Options
      /\ "read-tree" \in OpNames /\ "read-tree" \in CarefulOps /\ After("read-tree") = <<>>
  BY TreeFacts, LegalNoTree, OptionTypes DEF OpNames, CarefulOps, After
<1>2. /\ <<"open", "save">> # <<>> /\ <<"open", "save">> \in Seq(Phases) /\ <<"fail">> \in Seq(Phases)
      /\ \A s \in Seq(Phases) : <<>> \o s = s /\ s \o <<>> = s
  BY DEF Phases
<1>3. ASSUME NEW opts \in Options,
             Begin("read-tree", opts, FromTree(t), t, NoTree, NoTree, <<"open", "save">>)
      PROVE  CarefulInv'
  <2> DEFINE plan == <<"open", "save">>
             n == FromTree(t)
  <2>1. Begin("read-tree", opts, n, t, NoTree, NoTree, plan) /\ n \in IndexType /\ plan \in Seq(Phases)
    BY <1>1, <1>2, <1>3
  <2> HIDE DEF plan, n
  <2>2. /\ run'.op = "read-tree" /\ run'.plan = plan
        /\ was' = [index |-> index, wt |-> wt, head |-> head] /\ UNCHANGED <<index, wt, head>>
    BY <1>1, <1>3, <2>1, BeginFields
  <2> QED
    BY <2>2 DEF CarefulInv, plan
<1>4. CASE index = Torn
  BY <1>1, <1>3, <1>4, CarefulFails DEF OneTree
<1>5. CASE index # Torn
  <2>1. index \in IndexType /\ Legal(index)
    <3>1. Ready("read-tree")
      BY <1>5 DEF OneTree, Starting, Begin
    <3> QED
      BY <3>1, ReadyLegal
  <2>2. Begin("read-tree", opt, FromTree(t), t, NoTree, NoTree, PlanOf(opt, FromTree(t), <<>>, <<>>))
    BY <1>5 DEF OneTree, Starting
  <2>3. CASE opt.reset
    <3> DEFINE plan == PlanOf(opt, FromTree(t), <<>>, <<>>)
    <3>1. plan \in Seq(Phases)
      BY PlanType
    <3>2. Begin("read-tree", opt, FromTree(t), t, NoTree, NoTree, plan)
      BY <2>2
    <3> HIDE DEF plan
    <3>3. run'.opt = opt
      BY <1>1, <3>1, <3>2, BeginFields
    <3> QED
      BY <2>3, <3>3 DEF CarefulInv, Careful
  <2>4. CASE ~opt.reset /\ opt.update
    <3>1. opt = MergeUpdate
      BY <2>4 DEF OneTree, Options, MergeUpdate
    <3>2. Begin("read-tree", MergeUpdate, FromTree(t), t, NoTree, NoTree,
                PlanOf(MergeUpdate, FromTree(t), <<>>, After("read-tree")))
      BY <1>1, <2>2, <3>1
    <3>3. \A p \in Path : ~Unmerged(FromTree(t), p)
      BY <1>1, FromTreeType DEF Unmerged
    <3> QED
      BY <1>1, <2>1, <3>2, <3>3, CarefulBegin
  <2>5. CASE ~opt.reset /\ ~opt.update
    <3>1. ReadTreePlan(opt) = (<<>> \o <<>>) \o <<"open", "save">>
      BY <2>5 DEF ReadTreePlan
    <3>2. <<>> \o <<>> = <<>> /\ <<>> \in Seq(Phases)
      OBVIOUS
    <3>3. ReadTreePlan(opt) = <<"open", "save">>
      BY <1>2, <3>1, <3>2
    <3>4. PlanOf(opt, FromTree(t), <<>>, <<>>) \in {<<"fail">>, <<"open", "save">>}
      <4>1. PlanOf(opt, FromTree(t), <<>>, <<>>) \in {<<>> \o <<"fail">>, <<>> \o (<<"open", "save">> \o <<>>)}
        BY <3>3 DEF PlanOf
      <4> QED
        BY <1>2, <4>1
    <3>5. CASE PlanOf(opt, FromTree(t), <<>>, <<>>) = <<"fail">>
      BY <1>1, <2>2, <3>5, CarefulFails
    <3>6. CASE PlanOf(opt, FromTree(t), <<>>, <<>>) = <<"open", "save">>
      BY <1>3, <2>2, <3>6
    <3> QED
      BY <3>4, <3>5, <3>6
  <2> QED
    BY <2>3, <2>4, <2>5
<1> QED
  BY <1>4, <1>5

\* Every command that starts.
LEMMA CarefulStart ==
  ASSUME IInv, Commands
  PROVE  CarefulInv'
<1>1. CASE run'.op = "checkout"
  BY <1>1, StartedBy, CarefulCheckout
<1>2. CASE run'.op = "merge-ff"
  BY <1>2, StartedBy, CarefulForward
<1>3. CASE run'.op = "merge"
  BY <1>3, StartedBy, CarefulTrees
<1>4. CASE run'.op = "read-tree"
  BY <1>4, StartedBy, CarefulOneTree
<1> QED
  BY <1>1, <1>2, <1>3, <1>4 DEF CarefulInv, Careful

\* A step of a command is one of the phase it is in.
LEMMA StepOf ==
  ASSUME Next, ~Commands, ~Crash
  PROVE  /\ run.plan # <<>>
         /\ Head(run.plan) = "fail" => Fail
         /\ Head(run.plan) = "open" => Open
         /\ Head(run.plan) = "save" => Save
<1>1. \A phase : At(phase) <=> run.plan # <<>> /\ Head(run.plan) = phase
  BY DEF At
<1>2. CASE FileSteps
  <2>1. At("kill") \/ At("write") \/ At("writeAll") \/ At("prune") \/ At("drop") \/ At("put")
        \/ At("mergeFile") \/ At("clean")
    BY <1>2 DEF FileSteps, Kill, Write, WriteAll, Prune, Drop, Put, MergeFile, CleanUp
  <2> QED
    BY <1>1, <2>1
<1>3. CASE Pass
  BY <1>3 DEF Pass, Loops
<1>4. CASE Open
  BY <1>1, <1>4 DEF Open
<1>5. CASE Save
  BY <1>1, <1>5 DEF Save
<1>6. CASE Unlink
  BY <1>1, <1>6 DEF Unlink
<1>7. CASE Move
  BY <1>1, <1>7 DEF Move
<1>8. CASE Fail
  BY <1>1, <1>8 DEF Fail
<1> QED
  BY <1>2, <1>3, <1>4, <1>5, <1>6, <1>7, <1>8 DEF Next

\* A careful command that stops, and has not moved HEAD, keeps what is local.
LEMMA CarefulStops ==
  ASSUME run \in RunType, Careful, head = was.head, NEW o \in {"failed", "panic"}, Stop(o),
         wt = was.wt \/ Spared
  PROVE  CarefulInv'
<1>1. /\ SameTask /\ run'.plan = <<>> /\ run'.outcome = o /\ UNCHANGED <<index, wt, head, was>>
  BY StopFields
<1>2. head' = was'.head /\ wt' = wt /\ was' = was /\ run'.new = run.new
  BY <1>1 DEF SameTask
<1>3. /\ (Careful' <=> Careful)
      /\ \A p \in Path : (Local(p)' <=> Local(p)) /\ (InTheWay(p)' <=> InTheWay(p))
  BY <1>1, DecidedKept
<1>4. LocalKept'
  BY <1>2, <1>3 DEF LocalKept, Spared
<1> QED
  BY <1>1, <1>2, <1>4 DEF CarefulInv

\* So at every step, of other commands too.
LEMMA CarefulNext == IInv /\ CarefulInv /\ [Next]_vars => CarefulInv'
<1> SUFFICES ASSUME IInv, CarefulInv, [Next]_vars PROVE CarefulInv'
  OBVIOUS
<1>1. run \in RunType
  BY DEF IInv, TypeOK
<1>2. CASE Commands
  BY <1>2, CarefulStart
<1>3. CASE Next /\ ~Commands /\ Crash
  BY <1>3, CrashFields DEF CarefulInv, Careful
<1>4. CASE Next /\ ~Commands /\ ~Crash
  <2>1. /\ run'.op = run.op /\ run'.opt = run.opt /\ was' = was /\ (Careful' <=> Careful)
    BY <1>1, <1>4, StepKeepsTask DEF Careful
  <2>2. SUFFICES ASSUME Careful PROVE CarefulInv'
    BY <2>1 DEF CarefulInv
  <2>3. run.op \in CarefulOps
    BY <2>2 DEF Careful, CarefulOps
  <2>4. run.plan # <<>>
    BY <1>4, StepOf
  <2>5. CASE wt = was.wt /\ head = was.head /\ run.plan = <<"fail">>
    <3>1. Fail
      BY <1>4, <2>5, StepOf
    <3> QED
      BY <1>1, <2>2, <2>5, <3>1, CarefulStops DEF Fail
  <2>6. CASE wt = was.wt /\ head = was.head /\ run.op = "read-tree" /\ run.plan = <<"open", "save">>
    <3>1. Head(run.plan) = "open" /\ Tail(run.plan) = <<"save">>
      BY <2>6
    <3>2. Open
      BY <1>4, <3>1, StepOf
    <3>3. run' = Passed(Torn, wt) /\ UNCHANGED <<wt, head, was>>
      BY <3>2 DEF Open
    <3>4. run'.plan = <<"save">>
      BY <1>1, <2>4, <3>1, <3>3, PassedFields
    <3> QED
      BY <2>1, <2>6, <3>3, <3>4 DEF CarefulInv
  <2>7. CASE wt = was.wt /\ head = was.head /\ run.op = "read-tree" /\ run.plan = <<"save">>
    <3>1. Head(run.plan) = "save" /\ Tail(run.plan) = <<>>
      BY <2>7
    <3>2. Save
      BY <1>4, <3>1, StepOf
    <3>3. run' = Passed(run.new, wt) /\ UNCHANGED <<wt, head, was>>
      BY <3>2 DEF Save
    <3>4. run'.plan = <<>>
      BY <1>1, <2>4, <3>1, <3>3, PassedFields
    <3> QED
      BY <2>1, <2>7, <3>3, <3>4 DEF CarefulInv
  <2>8. CASE \E k \in Places(run.op) :
               /\ run.plan = Course(run.op, k) /\ CarefulState(k)
               /\ k # 0 => run.outcome = "running"
    <3>1. PICK k \in Places(run.op) :
            run.plan = Course(run.op, k) /\ CarefulState(k) /\ (k # 0 => run.outcome = "running")
      BY <2>8
    <3>2. k # 0
      BY <2>3, <2>4, <3>1, CourseSteps
    <3>3. head = was.head /\ Spared
      BY <3>1, <3>2 DEF CarefulState, CarefulFrame
    <3>4. CASE Stop("failed") \/ Stop("panic")
      BY <1>1, <2>2, <3>3, <3>4, CarefulStops
    <3>5. CASE ~Stop("failed") /\ ~Stop("panic")
      <4>1. /\ run'.op = run.op
            /\ \E j \in Places(run.op) :
                 run'.plan = Course(run.op, j) /\ CarefulState(j)' /\ (j # 0 => run'.outcome = "running")
        BY <1>4, <2>2, <2>3, <3>1, <3>5, CarefulProgress
      <4> QED
        BY <4>1 DEF CarefulInv
    <3> QED
      BY <3>4, <3>5
  <2> QED
    BY <2>2, <2>4, <2>5, <2>6, <2>7, <2>8 DEF CarefulInv
<1>5. CASE UNCHANGED vars
  <2>1. SameTask /\ UNCHANGED <<index, wt, head, was>> /\ run' = run
    BY <1>5 DEF vars, SameTask
  <2>2. /\ (Careful' <=> Careful) /\ Planned' = Planned
        /\ \A p \in Path : (Local(p)' <=> Local(p)) /\ (InTheWay(p)' <=> InTheWay(p)) /\ (Barred(p)' <=> Barred(p))
        /\ Decided => Decided'
    BY <2>1, DecidedKept
  <2>3. LocalKept => LocalKept'
    BY <2>1, <2>2 DEF LocalKept
  <2>4. ASSUME NEW k, CarefulState(k) PROVE CarefulState(k)'
    <3>1. Spared' /\ Decided'
      BY <2>1, <2>2, <2>4, SparedStays DEF CarefulState
    <3>2. CarefulFrame(k)'
      BY <2>1, <2>2, <2>4 DEF CarefulState, CarefulFrame
    <3>3. CarefulTodo(k)'
      BY <2>1, <2>4 DEF CarefulState, CarefulTodo
    <3>4. Carried(k)'
      <4>1. Carried(k) /\ run' = run /\ wt' = wt /\ was' = was /\ Planned' = Planned
        BY <2>1, <2>2, <2>4 DEF CarefulState
      <4>2. k <= 8 /\ Legal(run'.new) => \A p \in run'.files :
              wt'[p] = run'.new[p][0] \/ Barred(p)' \/ (k = 8 /\ p \in run'.todo)
        <5>1. run.files \subseteq Path
          BY CarefulTypes
        <5> QED
          BY <2>2, <4>1, <5>1 DEF Carried
      <4>3. Legal(run'.new) => \A p \in Path : run'.new[p][0] # None /\ p \notin run'.files =>
              wt'[p] = run'.new[p][0] \/ (run'.new[p] = Planned'[p] /\ wt'[p] = was'.wt[p])
        BY <4>1 DEF Carried
      <4>4. k <= 7 => \A p \in Path :
              ~Has(run'.new, p) /\ IsFile(wt', p) /\ wt'[p] = Last(was'.index, p) => k = 7 /\ p \in run'.todo
        BY <4>1 DEF Carried
      <4>5. k <= 4 /\ run'.op = "checkout" => \A p \in Path : run'.staged[p] # None =>
              (k = 4 /\ p \in run'.todo) \/ (run'.new[p][0] = run'.staged[p] /\ wt'[p] = run'.staged[p])
        BY <4>1 DEF Carried
      <4> QED
        BY <4>2, <4>3, <4>4, <4>5 DEF Carried
    <3> QED
      BY <3>1, <3>2, <3>3, <3>4 DEF CarefulState
  <2> QED
    BY <2>1, <2>2, <2>3, <2>4 DEF CarefulInv
<1> QED
  BY <1>2, <1>3, <1>4, <1>5

\* The argument of all the careful commands.
LEMMA CarefulAlways == Spec => [](IInv /\ CarefulInv)
<1>1. Init => CarefulInv
  BY DEF Init, CarefulInv, Careful, Idle
<1> QED
  BY <1>1, Invariant, CarefulNext, PTL DEF Spec

-----------------------------------------------------------------------------
(* What the careful commands promise.                                      *)

\* One that has ended, or moved HEAD, has done all of its plan.
LEMMA CarefulEnds ==
  ASSUME CarefulInv, Careful, run.op # "read-tree", run.outcome = "ok" \/ head # was.head
  PROVE  CarefulState(0)
<1>1. \A k : CarefulState(k) /\ head # was.head => k = 0
  BY DEF CarefulState, CarefulFrame
<1> QED
  BY <1>1 DEF CarefulInv

\* An index that has a path without conflict.
LEMMA LastOfFile ==
  ASSUME NEW i \in IndexType, NEW p \in Path, ~Unmerged(i, p)
  PROVE  Last(i, p) = i[p][0] /\ (Has(i, p) <=> i[p][0] # None)
<1>1. Has(i, p) <=> i[p][0] # None
  BY StageSet DEF Has, Unmerged
<1>2. Has(i, p) => Top(i, p) = 0
  BY TopType DEF Unmerged
<1> QED
  BY <1>1, <1>2 DEF Last

\* Without -f or --reset what was changed or not tracked is in the work tree
\* after every step, as long as no directory of a path the command knows has its
\* name (readtree.go:653).
THEOREM LocalChangesKept == Spec => []LocalKept
<1>1. IInv /\ CarefulInv => LocalKept
  BY DEF CarefulInv, CarefulState, Spared, LocalKept
<1> QED
  BY <1>1, CarefulAlways, PTL

\* A checkout that succeeds keeps what was staged (checkout.go:205).
THEOREM CheckoutKeepsStaged == Spec => []StagedKept
<1>1. IInv /\ CarefulInv => StagedKept
  <2> SUFFICES ASSUME IInv, CarefulInv, Ended("checkout"), ~run.opt.reset,
                      NEW p \in Path, was.index[p][0] \notin {None, was.head[p]}, was.wt[p] = was.index[p][0]
               PROVE  index[p][0] = was.index[p][0] /\ wt[p] = was.index[p][0]
    BY DEF StagedKept
  <2>1. CarefulState(0) /\ run.op = "checkout"
    BY CarefulEnds DEF Careful, Ended
  <2>2. run.staged[p] = was.index[p][0] /\ run.staged[p] # None
    <3>1. 0 \in Stage
      BY StageSet
    <3> QED
      BY <2>1, <3>1 DEF CarefulState, Decided
  <2>3. index = run.new /\ run.new[p][0] = run.staged[p] /\ wt[p] = run.staged[p]
    BY <2>1, <2>2 DEF CarefulState, CarefulFrame, Carried
  <2> QED
    BY <2>2, <2>3
<1> QED
  BY <1>1, CarefulAlways, PTL

\* HEAD moves last: when a checkout or a fast-forward has moved it, the index is
\* written, and the work tree agrees but for changes that were there
\* (checkout.go:258, merge.go:136).
THEOREM HeadFollowsFiles == Spec => []HeadMovedLast
<1>1. IInv /\ CarefulInv => HeadMovedLast
  <2> SUFFICES ASSUME IInv, CarefulInv, run.op \in {"checkout", "merge-ff"}, ~run.opt.reset,
                      Legal(run.new), head # was.head
               PROVE  /\ index = run.new /\ head = run.target
                      /\ \A p \in Path : wt[p] # Last(index, p) =>
                           \/ wt[p] = was.wt[p] /\ wt[p] # Last(was.index, p)
                           \/ IsDir(wt, p)
                           \/ Barred(p)
    BY DEF HeadMovedLast
  <2>1. CarefulState(0)
    BY CarefulEnds DEF Careful
  <2>2. index = run.new /\ head = run.target
    BY <2>1 DEF CarefulState, CarefulFrame
  <2>3. ASSUME NEW p \in Path, wt[p] # Last(index, p), ~IsDir(wt, p), ~Barred(p)
        PROVE  wt[p] = was.wt[p] /\ wt[p] # Last(was.index, p)
    <3>1. Last(index, p) = run.new[p][0] /\ (Has(run.new, p) <=> run.new[p][0] # None)
      <4>1. ~Unmerged(run.new, p)
        BY <2>1 DEF CarefulState, Decided
      <4> QED
        BY <2>2, <4>1, LastOfFile, CarefulTypes
    <3>2. CASE Has(run.new, p)
      <4>1. p \notin run.files
        BY <2>1, <2>3, <3>1, <3>2 DEF CarefulState, Carried
      <4>2. run.new[p] = Planned[p] /\ wt[p] = was.wt[p]
        BY <2>1, <2>3, <3>1, <3>2, <4>1 DEF CarefulState, Carried
      <4>3. Last(was.index, p) = Planned[p][0]
        BY <2>1, <3>1, <3>2, <4>1, <4>2, Choices DEF CarefulState
      <4> QED
        BY <2>3, <3>1, <4>2, <4>3
    <3>3. CASE ~Has(run.new, p)
      <4>1. IsFile(wt, p)
        BY <2>3, <3>1, <3>3, CarefulTypes DEF WorkTreeType, IsDir, IsFile
      <4>2. wt[p] = was.wt[p]
        BY <2>1, <3>3, <4>1 DEF CarefulState, Spared
      <4>3. wt[p] # Last(was.index, p)
        BY <2>1, <3>3, <4>1 DEF CarefulState, Carried
      <4> QED
        BY <4>2, <4>3
    <3> QED
      BY <3>2, <3>3
  <2> QED
    BY <2>2, <2>3
<1> QED
  BY <1>1, CarefulAlways, PTL

\* What a merge without conflict makes of a path.
Chosen(n, o, a, b, p) ==
  /\ n[p][0] # None => /\ n[p][0] = (IF a[p] = b[p] \/ o[p] = b[p] THEN a[p] ELSE b[p])
                       /\ a[p] = b[p] \/ o[p] \in {a[p], b[p]}
  /\ ~Has(n, p) => {o[p], a[p], b[p]} = {None}

\* Three trees make that of every path.
LEMMA ThreeChoices ==
  ASSUME NEW o \in TreeType, NEW a \in TreeType, NEW b \in TreeType, NEW p \in Path,
         NEW n, n = ThreeIndex(MergeUpdate, o, a, b)
  PROVE  Chosen(n, o, a, b, p)
<1> SUFFICES /\ n[p][0] # None => /\ n[p][0] = (IF a[p] = b[p] \/ o[p] = b[p] THEN a[p] ELSE b[p])
                                  /\ a[p] = b[p] \/ o[p] \in {a[p], b[p]}
             /\ ~Has(n, p) => {o[p], a[p], b[p]} = {None}
  BY DEF Chosen
<1>1. n[p] \in {Sides(o[p], a[p], b[p]), ThreeStages(o, a, b, p)}
  BY DEF ThreeIndex, MergeUpdate
<1>2. /\ o[p] \in Content \cup {None} /\ a[p] \in Content \cup {None} /\ b[p] \in Content \cup {None}
      /\ 0 \in Stage /\ 1 \in Stage /\ 2 \in Stage /\ 3 \in Stage
  BY StageSet DEF TreeType
<1>3. AtStage(0, a[p])[0] = a[p] /\ AtStage(0, b[p])[0] = b[p]
  BY <1>2, AtStageType
<1>4. CASE n[p] = Sides(o[p], a[p], b[p])
  <2>1. n[p][0] = None /\ n[p][1] = o[p] /\ n[p][2] = a[p] /\ n[p][3] = b[p]
    BY <1>2, <1>4 DEF Sides
  <2> QED
    BY <1>2, <2>1 DEF Has
<1>5. CASE n[p] # Sides(o[p], a[p], b[p])
  <2>1. n[p] = ThreeStages(o, a, b, p)
    BY <1>1, <1>5
  <2>2. CASE a[p] # None /\ a[p] = b[p]
    BY <1>2, <1>3, <2>1, <2>2 DEF ThreeStages, Has
  <2>3. CASE ~(a[p] # None /\ a[p] = b[p]) /\ o[p] = a[p] /\ b[p] # None
    BY <1>2, <1>3, <2>1, <2>3 DEF ThreeStages, Has
  <2>4. CASE ~(a[p] # None /\ a[p] = b[p]) /\ ~(o[p] = a[p] /\ b[p] # None) /\ o[p] = b[p] /\ a[p] # None
    BY <1>2, <1>3, <2>1, <2>4 DEF ThreeStages, Has
  <2> QED
    BY <1>5, <2>1, <2>2, <2>3, <2>4 DEF ThreeStages
<1> QED
  BY <1>4, <1>5

\* A merge never overwrites.
MergeOptions == run.op \in {"merge", "merge-ff"} => run.opt = MergeUpdate

\* Which options a command begins with.
LEMMA BeginOpt ==
  ASSUME NEW op, NEW opt, NEW n, NEW target, NEW base, NEW staged, NEW plan,
         Begin(op, opt, n, target, base, staged, plan)
  PROVE  run'.opt = opt
  BY DEF Begin, Start, Onward, Command, Idle

\* They stay what they were.
LEMMA MergeAlways == Spec => []MergeOptions
<1>1. Init => MergeOptions
  BY DEF Init, MergeOptions, Idle
<1>2. IInv /\ MergeOptions /\ [Next]_vars => MergeOptions'
  <2> SUFFICES ASSUME IInv, MergeOptions, [Next]_vars PROVE MergeOptions'
    OBVIOUS
  <2>1. run \in RunType
    BY DEF IInv, TypeOK
  <2>2. CASE Commands
    <3>1. run'.op = "merge" => run'.opt = MergeUpdate
      BY <2>2, StartedBy, BeginOpt DEF MergeTrees, ThreeWay
    <3>2. run'.op = "merge-ff" => run'.opt = MergeUpdate
      BY <2>2, StartedBy, BeginOpt DEF MergeForward, FastForward
    <3> QED
      BY <3>1, <3>2 DEF MergeOptions
  <2>3. CASE Next /\ ~Commands /\ Crash
    BY <2>3, CrashFields DEF MergeOptions
  <2>4. CASE Next /\ ~Commands /\ ~Crash
    BY <2>1, <2>4, StepKeepsTask DEF MergeOptions
  <2>5. CASE UNCHANGED vars
    BY <2>5 DEF vars, MergeOptions
  <2> QED
    BY <2>2, <2>3, <2>4, <2>5
<1> QED
  BY <1>1, <1>2, Invariant, PTL DEF Spec

\* What a merge leaves without conflict is what both sides have, or what the one
\* side has that changed it; and nothing goes from the index that one of the three
\* has: a removal is left in conflict (readtree.go:257).
THEOREM MergeTakesTheChange == Spec => []ThreeWayRight
<1>1. IInv /\ CarefulInv /\ MergeOptions => ThreeWayRight
  <2> SUFFICES ASSUME IInv, CarefulInv, MergeOptions, Ended("merge"), NEW p \in Path
               PROVE  /\ Chosen(index, run.base, was.head, run.target, p)
                      /\ index[p][0] # None /\ ~Barred(p) =>
                           wt[p] = index[p][0] \/ (Local(p) /\ wt[p] = was.wt[p])
    BY DEF ThreeWayRight, Chosen
  <2>1. run.op = "merge" /\ run.outcome = "ok" /\ ~run.opt.reset
    BY DEF Ended, MergeOptions, MergeUpdate
  <2>2. CarefulState(0)
    BY <2>1, CarefulEnds DEF Careful
  <2>3. /\ index = run.new /\ Planned = run.new /\ Legal(run.new)
        /\ run.new = ThreeIndex(MergeUpdate, run.base, was.head, run.target)
    BY <2>1, <2>2 DEF CarefulState, CarefulFrame, Decided, Planned, IInv, LegalInv
  <2>4. run.base \in TreeType /\ was.head \in TreeType /\ run.target \in TreeType
    BY DEF IInv, TypeOK, RunType
  <2>5. ASSUME index[p][0] # None, ~Barred(p)
        PROVE  wt[p] = index[p][0] \/ (Local(p) /\ wt[p] = was.wt[p])
    <3>1. CASE p \in run.files
      BY <2>2, <2>3, <2>5, <3>1 DEF CarefulState, Carried
    <3>2. CASE p \notin run.files
      <4>1. wt[p] = run.new[p][0] \/ wt[p] = was.wt[p]
        BY <2>2, <2>3, <2>5, <3>2 DEF CarefulState, Carried
      <4>2. IsFile(was.wt, p) /\ Last(was.index, p) = run.new[p][0]
        BY <2>2, <2>3, <2>5, <3>2, Choices DEF CarefulState
      <4> QED
        BY <2>3, <4>1, <4>2 DEF Local
    <3> QED
      BY <3>1, <3>2
  <2> DEFINE o == run.base
             a == was.head
             b == run.target
             n == run.new
  <2>6. o \in TreeType /\ a \in TreeType /\ b \in TreeType /\ n = ThreeIndex(MergeUpdate, o, a, b)
    BY <2>3, <2>4
  <2> HIDE DEF o, a, b, n
  <2>7. Chosen(n, o, a, b, p)
    BY <2>6, ThreeChoices
  <2> QED
    BY <2>3, <2>5, <2>7 DEF o, a, b, n
<1> QED
  BY <1>1, CarefulAlways, MergeAlways, PTL

\* What a fast-forward makes of a path that it is not refused for.
LEMMA ForwardChoices ==
  ASSUME NEW i \in IndexType, NEW h \in TreeType, NEW m \in TreeType, NEW w, NEW p \in Path,
         ~FFBlocked(i, h, m, w, FALSE), ~Unmerged(i, p)
  PROVE  FFIndex(i, h, m, FALSE)[p][0] = IF Last(i, p) = h[p] THEN m[p] ELSE Last(i, p)
<1> DEFINE e == Last(i, p)
           n == FFIndex(i, h, m, FALSE)
<1>1. /\ ~(e # None /\ h[p] # None /\ m[p] = None /\ ~(w[p] = e /\ e = h[p]))
      /\ ~(e = None /\ None \notin {h[p], m[p]} /\ h[p] # m[p])
  BY DEF FFBlocked
<1>2. n[p] = IF e = None
             THEN IF h[p] = None THEN AtStage(0, m[p]) ELSE NoStages
             ELSE IF h[p] # None /\ m[p] = None THEN NoStages
             ELSE IF None \notin {h[p], m[p]} /\ h[p] # m[p] /\ e = h[p] THEN AtStage(0, m[p])
             ELSE Keep(i, p)
  BY DEF FFIndex
<1>3. AtStage(0, m[p])[0] = m[p] /\ NoStages[0] = None
  BY StageSet, AtStageType, NoStagesType DEF TreeType
<1>4. e # None => Keep(i, p)[0] = e
  <2> SUFFICES ASSUME e # None PROVE Keep(i, p)[0] = e
    OBVIOUS
  <2>1. Has(i, p) /\ e = i[p][0] /\ i[p][0] # None
    BY LastOfFile, LastType
  <2>2. Top(i, p) = 0
    BY <2>1, TopType DEF Unmerged
  <2>3. 0 \in Stage
    BY StageSet
  <2> HIDE DEF e
  <2> QED
    BY <2>1, <2>2, <2>3 DEF Keep
<1> HIDE DEF e, n
<1>5. CASE e = None
  BY <1>1, <1>2, <1>3, <1>5 DEF e, n
<1>6. CASE e # None /\ h[p] # None /\ m[p] = None
  BY <1>1, <1>2, <1>3, <1>6 DEF e, n
<1>7. CASE e # None /\ ~(h[p] # None /\ m[p] = None) /\ None \notin {h[p], m[p]} /\ h[p] # m[p] /\ e = h[p]
  BY <1>2, <1>3, <1>7 DEF e, n
<1>8. CASE e # None /\ ~(h[p] # None /\ m[p] = None) /\ ~(None \notin {h[p], m[p]} /\ h[p] # m[p] /\ e = h[p])
  BY <1>2, <1>4, <1>8 DEF e, n
<1> QED
  BY <1>5, <1>6, <1>7, <1>8

\* A fast-forward keeps an entry that was not HEAD's, a removal too, and gives
\* all others as the new tree has them; an index without entries is an index
\* file that is not there (readtree.go:363).
THEOREM ForwardTakesTheRest == Spec => []ForwardKeepsStaged
<1>1. IInv /\ CarefulInv /\ MergeOptions => ForwardKeepsStaged
  <2> SUFFICES ASSUME IInv, CarefulInv, MergeOptions, Ended("merge-ff"),
                      ~\A p \in Path : ~Has(was.index, p), NEW p \in Path
               PROVE  Last(index, p) = IF Last(was.index, p) = was.head[p] THEN run.target[p]
                                       ELSE Last(was.index, p)
    BY DEF ForwardKeepsStaged
  <2>1. run.op = "merge-ff" /\ run.outcome = "ok" /\ ~run.opt.reset
    BY DEF Ended, MergeOptions, MergeUpdate
  <2>2. CarefulState(0)
    BY <2>1, CarefulEnds DEF Careful
  <2>3. /\ index = run.new /\ run.new \in IndexType /\ ~Unmerged(run.new, p)
        /\ run.new = FFIndex(was.index, was.head, run.target, FALSE)
        /\ ~FFBlocked(was.index, was.head, run.target, was.wt, FALSE)
    BY <2>1, <2>2, CarefulTypes DEF CarefulState, CarefulFrame, Decided
  <2>4. was.index \in IndexType /\ ~Unmerged(was.index, p)
    BY <2>2 DEF CarefulState, Decided, Conflicted
  <2>5. was.head \in TreeType /\ run.target \in TreeType
    BY DEF IInv, TypeOK, RunType
  <2>6. Last(index, p) = run.new[p][0]
    BY <2>3, LastOfFile
  <2> DEFINE i == was.index
             h == was.head
             m == run.target
             w == was.wt
  <2>7. /\ i \in IndexType /\ ~Unmerged(i, p) /\ h \in TreeType /\ m \in TreeType
        /\ ~FFBlocked(i, h, m, w, FALSE) /\ Last(index, p) = FFIndex(i, h, m, FALSE)[p][0]
    BY <2>3, <2>4, <2>5, <2>6
  <2> HIDE DEF i, h, m, w
  <2>8. Last(index, p) = IF Last(i, p) = h[p] THEN m[p] ELSE Last(i, p)
    BY <2>7, ForwardChoices
  <2> QED
    BY <2>8 DEF i, h, m
<1> QED
  BY <1>1, CarefulAlways, MergeAlways, PTL

\* Whichever way it goes, a merge makes of each path what the sides did to it.
THEOREM MergesAreRight == Spec => []MergeRight
BY MergeTakesTheChange, ForwardTakesTheRest, PTL DEF MergeRight

=============================================================================
