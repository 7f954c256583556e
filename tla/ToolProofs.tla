----------------------------- MODULE ToolProofs -----------------------------
(***************************************************************************)
(* Two parts at the edge of LevelDB: RepairDB, and the C bindings.         *)
(*                                                                         *)
(* RepairDB keeps its promise (RepairExact) for every set of log and table *)
(* files, whichever of them are damaged or empty, and any number of kills. *)
(* The invariant of its proof, RepairInv:                                  *)
(*   - a damaged table holds nothing that is promised (DamagedUnsafe), so  *)
(*     it may go to lost/ whether or not its copy succeeds;                *)
(*   - what is promised is in the files the Repairer still has on a list   *)
(*     (RepairLists), so every step that moves a file away must show that  *)
(*     the file is on no list;                                             *)
(*   - which file that is follows from where the Repairer stands           *)
(*     (RepairPhases): the log just converted, the damaged source, the     *)
(*     copy under its own number;                                          *)
(*   - a Repairer that runs has not written the descriptor (RepairEnds).   *)
(* RepairExact by itself is not inductive: it does not say that the files  *)
(* moved to lost/ are the ones replaced.                                   *)
(*                                                                         *)
(* The C bindings lose, leak and confuse nothing (CApiExact), whatever     *)
(* calls a client makes by the rules of c.h.  The invariant, CapiInv:      *)
(*   - every wrapper has the fields of its kind (Wrapper), and what options*)
(*     and read options point to is of the right kind (PointersOK):        *)
(*     otherwise a destroy that its own guard allows could leave one of    *)
(*     the others dangling;                                                *)
(*   - a C++ object is inside one wrapper (RepsOwned), so deleting a       *)
(*     wrapper's object takes nothing from another;                        *)
(*   - every number in use is below the next one, so a new wrapper, object *)
(*     or string is none of the old: without that a destructor could run   *)
(*     again for a state whose number came back.                           *)
(***************************************************************************)
EXTENDS Repair, CApi, SeqLemmas

-----------------------------------------------------------------------------
(* Repair: the invariant *)

\* The types.
RepairPcs == {"logs", "archiveLog", "tables", "copy", "archiveSrc", "finish", "rename", "descriptor"}
RepairFile == [kind : {"log", "table"}, ents : SUBSET FoundFiles, damaged : BOOLEAN]
RepairInfo == [number : Nat, max : {0} \cup FoundFiles]
RepairState == [pc : RepairPcs, next : Nat, logs : SUBSET Nat, numbers : SUBSET Nat, tables : SUBSET RepairInfo,
                log : Nat, src : Nat, copy : Nat, got : SUBSET FoundFiles]

DirOK(d) ==
    /\ d \in [DOMAIN d -> RepairFile] /\ DOMAIN d \subseteq Nat
    /\ \E b \in Nat : \A n \in DOMAIN d : n <= b
RepairTypes ==
    /\ DirOK(dir)
    /\ rep = NotRunning \/ rep \in RepairState
    /\ safe \subseteq FoundFiles

\* What a table's iterator fails on was never promised.
DamagedUnsafe == \A n \in DOMAIN dir : dir[n].kind = "table" /\ dir[n].damaged => dir[n].ents \cap safe = {}

\* What the Repairer lists is there, and holds all that is promised; the next
\* file number is above every one in use.
IsLogFile(n) == n \in DOMAIN dir /\ dir[n].kind = "log"
IsTableFile(n) == n \in DOMAIN dir /\ dir[n].kind = "table"
GoodTable(t) ==
    IsTableFile(t.number) /\ ~dir[t.number].damaged /\ \A e \in dir[t.number].ents : e <= t.max
ListedFiles == rep.logs \cup rep.numbers \cup {t.number : t \in rep.tables}
RepairLists ==
    rep # NotRunning =>
        /\ \A n \in DOMAIN dir : n < rep.next
        /\ \A n \in rep.logs : IsLogFile(n)
        /\ \A n \in rep.numbers : IsTableFile(n)
        /\ \A t \in rep.tables : GoodTable(t)
        /\ \A e \in safe : \E n \in ListedFiles : e \in dir[n].ents
\* Which file each step is about.
RepairPhases ==
    rep # NotRunning =>
        /\ rep.pc = "archiveLog" => IsLogFile(rep.log) /\ rep.log \notin rep.logs
        /\ rep.pc \notin {"logs", "archiveLog"} => rep.logs = {}
        /\ rep.pc = "descriptor" => rep.numbers = {}
        /\ rep.pc \in {"copy", "archiveSrc", "finish", "rename"} => rep.src < rep.next
        /\ rep.pc \in {"copy", "archiveSrc"} =>
              IsTableFile(rep.src) /\ dir[rep.src].damaged /\ rep.src \notin rep.numbers
        /\ rep.pc \in {"finish", "rename"} => rep.src \notin DOMAIN dir
        /\ rep.pc \in {"archiveSrc", "finish", "rename"} =>
              /\ IsTableFile(rep.copy) /\ rep.copy \notin rep.numbers /\ rep.copy # rep.src
              /\ \A t \in rep.tables : t.number # rep.copy
        /\ rep.pc = "rename" => dir[rep.copy] = RepFile("table", rep.got, FALSE)
\* InstallDescriptor is the last step.
RepairEnds == rep # NotRunning => manifest.is # "new"

RepairInv == RepairTypes /\ DamagedUnsafe /\ RepairLists /\ RepairPhases /\ RepairEnds /\ RepairExact

-----------------------------------------------------------------------------
(* Repair: files and numbers *)

\* Adding a file.
LEMMA WithFileIs ==
    ASSUME NEW d, NEW n, NEW f
    PROVE  /\ DOMAIN WithFile(d, n, f) = DOMAIN d \cup {n}
           /\ WithFile(d, n, f)[n] = f
           /\ \A m \in DOMAIN d \ {n} : WithFile(d, n, f)[m] = d[m]
  BY DEF WithFile

\* Taking one away.
LEMMA WithoutFileIs ==
    ASSUME NEW d, NEW n
    PROVE  /\ DOMAIN WithoutFile(d, n) = DOMAIN d \ {n}
           /\ \A m \in DOMAIN d \ {n} : WithoutFile(d, n)[m] = d[m]
  BY DEF WithoutFile

\* A directory stays one.
LEMMA WithFileOK ==
    ASSUME NEW d, DirOK(d), NEW n \in Nat, NEW f \in RepairFile
    PROVE  DirOK(WithFile(d, n, f))
  <1> DEFINE w == WithFile(d, n, f)
  <1>1. w \in [DOMAIN w -> RepairFile]
    BY DEF DirOK, WithFile
  <1>2. DOMAIN w = DOMAIN d \cup {n}
    BY WithFileIs
  <1>3. DOMAIN w \subseteq Nat
    BY <1>2 DEF DirOK
  <1>4. PICK b \in Nat : \A m \in DOMAIN d : m <= b
    BY DEF DirOK
  <1>5. \A m \in DOMAIN w : m <= b + n
    <2> HIDE DEF w
    <2>1. DOMAIN d \subseteq Nat
      BY DEF DirOK
    <2> QED
      BY <1>2, <1>4, <2>1
  <1>6. b + n \in Nat
    OBVIOUS
  <1> QED
    BY <1>1, <1>3, <1>5, <1>6 DEF DirOK

\* Without one of its files, too.
LEMMA WithoutFileOK ==
    ASSUME NEW d, DirOK(d), NEW n
    PROVE  DirOK(WithoutFile(d, n))
  <1> DEFINE w == WithoutFile(d, n)
  <1>1. w \in [DOMAIN w -> RepairFile]
    BY DEF DirOK, WithoutFile
  <1>2. DOMAIN w \subseteq DOMAIN d
    BY WithoutFileIs
  <1>3. DOMAIN w \subseteq Nat
    BY <1>2 DEF DirOK
  <1>4. PICK b \in Nat : \A m \in DOMAIN d : m <= b
    BY DEF DirOK
  <1>5. \A m \in DOMAIN w : m <= b
    BY <1>2, <1>4
  <1> QED
    BY <1>1, <1>3, <1>5 DEF DirOK

\* The largest of a set of numbers that has a bound.
LEMMA MaxOfBounded ==
    ASSUME NEW S \in SUBSET Nat, S # {}, NEW b \in Nat, \A x \in S : x <= b
    PROVE  Max(S) \in S /\ \A x \in S : x <= Max(S)
  <1> DEFINE T == {b - x : x \in S}
  <1>0. \A x \in S : b - x \in Nat /\ x \in Nat
    OBVIOUS
  <1>1. T \in SUBSET Nat /\ T # {}
    BY <1>0
  <1>2. PICK t \in T : \A u \in T : t <= u
    <2> HIDE DEF T
    <2> QED
      BY <1>1, LeastNumber
  <1>3. PICK m \in S : t = b - m
    OBVIOUS
  <1>4. \A x \in S : b - m <= b - x
    BY <1>2, <1>3
  <1>5. \A x \in S : m >= x
    BY <1>0, <1>4
  <1>6. Max(S) \in S /\ \A x \in S : Max(S) >= x
    BY <1>5, Zenon DEF Max
  <1> QED
    BY <1>0, <1>6

\* A list of numbers has a bound.
LEMMA ListIsBounded ==
    ASSUME NEW N \in Nat, NEW Q \in [1 .. N -> Nat]
    PROVE  \E b \in Nat : \A i \in 1 .. N : Q[i] <= b
  <1> DEFINE Unbounded(k) == \A b \in Nat : \E i \in 1 .. k : Q[i] > b
  <1> DEFINE B == {k \in Nat : k <= N /\ Unbounded(k)}
  <1>1. ASSUME B # {} PROVE FALSE
    <2>1. B \in SUBSET Nat
      OBVIOUS
    <2>2. PICK k \in B : \A j \in B : k <= j
      <3> HIDE DEF B
      <3> QED
        BY <1>1, <2>1, LeastNumber
    <2>3. k \in Nat /\ k <= N /\ Unbounded(k)
      OBVIOUS
    <2>4. k # 0
      <3>1. 0 \in Nat /\ 1 .. 0 = {}
        OBVIOUS
      <3>2. k = 0 => \E i \in 1 .. 0 : Q[i] > 0
        BY <2>3, <3>1
      <3> QED
        BY <3>1, <3>2
    <2> DEFINE j == k - 1
    <2>5. j \in Nat /\ j <= N /\ ~(k <= j) /\ k = j + 1
      BY <2>3, <2>4
    <2>6. ~Unbounded(j)
      <3>1. j \notin B
        BY <2>2, <2>5
      <3> QED
        BY <2>5, <3>1
    <2>7. PICK b \in Nat : \A i \in 1 .. j : ~(Q[i] > b)
      BY <2>6
    <2>8. k \in 1 .. N
      BY <2>3, <2>4
    <2>9. Q[k] \in Nat
      BY <2>8
    <2>10. b + Q[k] \in Nat
      BY <2>9
    <2>11. PICK i \in 1 .. k : Q[i] > b + Q[k]
      BY <2>3, <2>10
    <2>12. i \in Nat /\ 1 <= i /\ i <= k
      BY <2>3
    <2>13. i \in 1 .. N
      BY <2>3, <2>12
    <2>14. Q[i] \in Nat
      BY <2>13
    <2> HIDE DEF B, Unbounded
    <2>15. i # k
      <3>1. i = k => Q[k] > b + Q[k]
        BY <2>11
      <3> QED
        BY <2>9, <3>1
    <2> HIDE DEF j
    <2>16. i \in 1 .. j
      BY <2>3, <2>5, <2>12, <2>15
    <2>17. ~(Q[i] > b)
      BY <2>7, <2>16
    <2> QED
      BY <2>9, <2>11, <2>14, <2>17
  <1>2. N \notin B
    BY <1>1
  <1>3. ~Unbounded(N)
    BY <1>2
  <1>4. PICK b \in Nat : \A i \in 1 .. N : ~(Q[i] > b)
    BY <1>3
  <1> HIDE DEF B, Unbounded
  <1>5. \A i \in 1 .. N : Q[i] <= b
    <2> SUFFICES ASSUME NEW i \in 1 .. N
                 PROVE  Q[i] <= b
      OBVIOUS
    <2>1. Q[i] \in Nat /\ ~(Q[i] > b)
      BY <1>4
    <2> QED
      BY <2>1
  <1> QED
    BY <1>5

\* A finite set of numbers has a bound.
LEMMA FiniteIsBounded ==
    ASSUME NEW S \in SUBSET Nat, IsFiniteSet(S)
    PROVE  \E b \in Nat : \A x \in S : x <= b
  <1>1. PICK Q \in Seq(S) : \A s \in S : \E n \in 1 .. Len(Q) : Q[n] = s
    BY DEF IsFiniteSet
  <1>2. Q \in [1 .. Len(Q) -> S] /\ Len(Q) \in Nat
    BY LenProperties
  <1>3. Q \in [1 .. Len(Q) -> Nat]
    BY <1>2
  <1>4. PICK b \in Nat : \A i \in 1 .. Len(Q) : Q[i] <= b
    BY <1>2, <1>3, ListIsBounded
  <1> QED
    BY <1>1, <1>4

\* What a table's or the descriptor's largest sequence number is.
LEMMA MaxEntry ==
    ASSUME NEW S \in SUBSET ({0} \cup FoundFiles)
    PROVE  /\ Max({0} \cup S) \in {0} \cup FoundFiles
           /\ \A e \in S : e <= Max({0} \cup S)
  <1>1. FoundFiles \in SUBSET Nat /\ IsFiniteSet(FoundFiles)
    BY RepairAssumption
  <1>2. PICK b \in Nat : \A x \in FoundFiles : x <= b
    BY <1>1, FiniteIsBounded
  <1>3. {0} \cup S \in SUBSET Nat /\ {0} \cup S # {} /\ \A x \in {0} \cup S : x <= b
    BY <1>1, <1>2
  <1>4. Max({0} \cup S) \in {0} \cup S /\ \A x \in {0} \cup S : x <= Max({0} \cup S)
    <2> DEFINE T == {0} \cup S
    <2> HIDE DEF T
    <2>1. T \in SUBSET Nat /\ T # {} /\ \A x \in T : x <= b
      BY <1>3 DEF T
    <2>2. Max(T) \in T /\ \A x \in T : x <= Max(T)
      BY <2>1, MaxOfBounded
    <2> QED
      BY <2>2 DEF T
  <1> QED
    BY <1>4

-----------------------------------------------------------------------------
(* What a running repair may rely on *)

\* The three fields of a file.
LEMMA FileFields ==
    ASSUME NEW k \in {"log", "table"}, NEW e \in SUBSET FoundFiles, NEW d \in BOOLEAN
    PROVE  /\ RepFile(k, e, d) \in RepairFile
           /\ RepFile(k, e, d).kind = k /\ RepFile(k, e, d).ents = e /\ RepFile(k, e, d).damaged = d
  BY DEF RepFile, RepairFile

\* A record of the repairer that runs is not the one of none.
LEMMA RunningIs ==
    ASSUME RepairTypes, rep.pc # "stopped"
    PROVE  rep \in RepairState /\ rep # NotRunning
  BY DEF RepairTypes, NotRunning

\* The promise while RepairDB runs follows from what it lists.
LEMMA ExactWhileRunning ==
    RepairLists /\ RepairEnds /\ rep # NotRunning => RepairExact
  <1> SUFFICES ASSUME RepairLists, RepairEnds, rep # NotRunning
               PROVE  RepairExact
    OBVIOUS
  <1>1. \A n \in ListedFiles : n \in DOMAIN dir
    BY DEF RepairLists, ListedFiles, IsLogFile, IsTableFile, GoodTable
  <1>2. RepairKeeps
    BY <1>1 DEF RepairLists, RepairKeeps
  <1>3. RepairedWhole
    BY DEF RepairEnds, RepairedWhole
  <1> QED
    BY <1>2, <1>3 DEF RepairExact

\* The repairer starts from no list.
LEMMA InitRepair == RepairInit => RepairInv
  <1> SUFFICES ASSUME RepairInit
               PROVE  RepairInv
    OBVIOUS
  <1>1. PICK kind \in [FoundFiles -> {"log", "table"}], bad \in SUBSET FoundFiles, empty \in SUBSET FoundFiles :
           /\ dir = [n \in FoundFiles |-> RepFile(kind[n], IF n \in empty THEN {} ELSE {n}, n \in bad)]
           /\ safe = {n \in FoundFiles \ empty : kind[n] = "log" \/ n \notin bad}
    BY DEF RepairInit
  <1>2. rep = NotRunning /\ manifest.is # "new"
    BY DEF RepairInit
  <1>3. DOMAIN dir = FoundFiles /\ safe \subseteq FoundFiles
    BY <1>1
  <1>4. \A n \in FoundFiles : dir[n] = RepFile(kind[n], IF n \in empty THEN {} ELSE {n}, n \in bad)
    BY <1>1
  <1> DEFINE Held(n) == IF n \in empty THEN {} ELSE {n}
  <1>10. \A n \in FoundFiles :
           /\ dir[n] \in RepairFile /\ dir[n].kind = kind[n] /\ dir[n].ents = Held(n)
           /\ dir[n].damaged => n \in bad
    <2> SUFFICES ASSUME NEW n \in FoundFiles
                 PROVE  /\ dir[n] \in RepairFile /\ dir[n].kind = kind[n] /\ dir[n].ents = Held(n)
                        /\ dir[n].damaged => n \in bad
      OBVIOUS
    <2>1. kind[n] \in {"log", "table"} /\ Held(n) \in SUBSET FoundFiles
      OBVIOUS
    <2> DEFINE d == n \in bad
    <2>2. d \in BOOLEAN
      OBVIOUS
    <2>3. dir[n] = RepFile(kind[n], Held(n), d)
      BY <1>4
    <2> HIDE DEF Held, d
    <2>4. dir[n] \in RepairFile /\ dir[n].kind = kind[n] /\ dir[n].ents = Held(n) /\ dir[n].damaged = d
      BY <2>1, <2>2, <2>3, FileFields
    <2>5. d => n \in bad
      BY DEF d
    <2> QED
      BY <2>4, <2>5
  <1>5. DirOK(dir)
    <2>1. \A n \in FoundFiles : dir[n] \in RepairFile
      BY <1>10
    <2>2. dir \in [DOMAIN dir -> RepairFile]
      BY <1>1, <1>3, <2>1
    <2>3. FoundFiles \in SUBSET Nat /\ IsFiniteSet(FoundFiles)
      BY RepairAssumption
    <2>4. \E b \in Nat : \A n \in FoundFiles : n <= b
      BY <2>3, FiniteIsBounded
    <2> QED
      BY <1>3, <2>2, <2>3, <2>4 DEF DirOK
  <1>6. RepairTypes
    BY <1>2, <1>3, <1>5 DEF RepairTypes
  <1>7. DamagedUnsafe
    <2> SUFFICES ASSUME NEW n \in DOMAIN dir, dir[n].kind = "table", dir[n].damaged,
                        NEW e \in dir[n].ents, e \in safe
                 PROVE  FALSE
      BY DEF DamagedUnsafe
    <2>1. kind[n] = "table" /\ n \in bad /\ e \in Held(n)
      BY <1>3, <1>10
    <2>3. e = n
      BY <2>1
    <2> QED
      BY <1>1, <2>1, <2>3
  <1>8. RepairKeeps
    <2> SUFFICES ASSUME NEW e \in safe
                 PROVE  e \in dir[e].ents /\ e \in DOMAIN dir
      BY DEF RepairKeeps
    <2>1. e \in FoundFiles /\ e \notin empty
      BY <1>1
    <2> QED
      BY <1>3, <1>10, <2>1
  <1>9. RepairExact
    BY <1>2, <1>8 DEF RepairExact, RepairedWhole
  <1> QED
    BY <1>2, <1>6, <1>7, <1>9 DEF RepairInv, RepairLists, RepairPhases, RepairEnds

-----------------------------------------------------------------------------
(* The steps *)

\* FindFiles lists every file.
LEMMA FindFilesStep ==
    ASSUME RepairInv, FindFiles
    PROVE  RepairInv'
  <1> DEFINE top == Max({0} \cup DOMAIN dir)
  <1>1. RepairTypes /\ DamagedUnsafe /\ RepairExact
    BY DEF RepairInv
  <1>2. dir' = dir /\ manifest' = manifest /\ safe' = safe /\ manifest.is # "new"
    BY DEF FindFiles
  <1>3. rep' = [pc |-> "logs", next |-> top + 1,
                logs |-> {n \in DOMAIN dir : dir[n].kind = "log"},
                numbers |-> {n \in DOMAIN dir : dir[n].kind = "table"}, tables |-> {},
                log |-> 0, src |-> 0, copy |-> 0, got |-> {}]
    BY DEF FindFiles
  <1>4. top \in Nat /\ \A n \in DOMAIN dir : n <= top
    <2>1. PICK b \in Nat : \A n \in DOMAIN dir : n <= b
      BY <1>1 DEF RepairTypes, DirOK
    <2> DEFINE T == {0} \cup DOMAIN dir
    <2>2. T \in SUBSET Nat /\ T # {}
      BY <1>1 DEF RepairTypes, DirOK
    <2>3. \A x \in T : x <= b
      BY <2>1
    <2>4. DOMAIN dir \subseteq T
      OBVIOUS
    <2> HIDE DEF T
    <2>5. Max(T) \in T /\ \A x \in T : x <= Max(T)
      BY <2>1, <2>2, <2>3, MaxOfBounded
    <2>6. top = Max(T)
      BY DEF T
    <2> QED
      BY <2>2, <2>4, <2>5, <2>6
  <1> HIDE DEF top
  <1>5. DOMAIN dir \subseteq Nat /\ dir \in [DOMAIN dir -> RepairFile]
    BY <1>1 DEF RepairTypes, DirOK
  <1>6. rep' \in RepairState
    <2>1. top + 1 \in Nat
      BY <1>4
    <2>2. /\ {n \in DOMAIN dir : dir[n].kind = "log"} \in SUBSET Nat
          /\ {n \in DOMAIN dir : dir[n].kind = "table"} \in SUBSET Nat
      BY <1>5
    <2> QED
      BY <1>3, <2>1, <2>2 DEF RepairState, RepairPcs
  <1>7. rep'.pc = "logs" /\ rep' # NotRunning
    BY <1>3 DEF NotRunning
  <1>8. RepairTypes'
    BY <1>1, <1>2, <1>6 DEF RepairTypes
  <1>9. DamagedUnsafe'
    BY <1>1, <1>2 DEF DamagedUnsafe
  <1>10. RepairLists'
    <2>1. \A n \in DOMAIN dir : n < rep'.next
      BY <1>3, <1>4, <1>5
    <2>2. \A n \in DOMAIN dir : dir[n].kind \in {"log", "table"}
      BY <1>5 DEF RepairFile
    <2>3. \A n \in DOMAIN dir : n \in rep'.logs \cup rep'.numbers
      BY <1>3, <2>2
    <2>4. \A e \in safe : \E n \in DOMAIN dir : e \in dir[n].ents
      BY <1>1 DEF RepairExact, RepairKeeps
    <2>5. \A e \in safe : \E n \in ListedFiles' : e \in dir[n].ents
      BY <2>3, <2>4 DEF ListedFiles
    <2>6. \A n \in rep'.logs : n \in DOMAIN dir /\ dir[n].kind = "log"
      BY <1>3
    <2>7. \A n \in rep'.numbers : n \in DOMAIN dir /\ dir[n].kind = "table"
      BY <1>3
    <2>8. rep'.tables = {}
      BY <1>3
    <2> QED
      BY <1>2, <2>1, <2>5, <2>6, <2>7, <2>8 DEF RepairLists, IsLogFile, IsTableFile
  <1>11. RepairPhases'
    BY <1>7 DEF RepairPhases
  <1>12. RepairEnds'
    BY <1>2 DEF RepairEnds
  <1>13. (rep # NotRunning)'
    BY <1>7
  <1>14. RepairExact'
    BY <1>10, <1>12, <1>13, ExactWhileRunning, PTL
  <1> QED
    BY <1>8, <1>9, <1>10, <1>11, <1>12, <1>14 DEF RepairInv

\* What a repairer that runs may rely on.
LEMMA RunningTypes ==
    ASSUME RepairInv, rep.pc # "stopped"
    PROVE  /\ rep \in RepairState /\ rep # NotRunning
           /\ rep.next \in Nat /\ rep.logs \subseteq Nat /\ rep.numbers \subseteq Nat /\ rep.tables \subseteq RepairInfo
           /\ rep.log \in Nat /\ rep.src \in Nat /\ rep.copy \in Nat /\ rep.got \subseteq FoundFiles
           /\ DirOK(dir) /\ DOMAIN dir \subseteq Nat /\ safe \subseteq FoundFiles
           /\ \A n \in DOMAIN dir : dir[n] \in RepairFile /\ dir[n].ents \subseteq FoundFiles /\ n # rep.next
           /\ DamagedUnsafe /\ RepairLists /\ RepairPhases /\ RepairEnds
  <1>1. RepairTypes /\ DamagedUnsafe /\ RepairLists /\ RepairPhases /\ RepairEnds
    BY DEF RepairInv
  <1>2. rep \in RepairState /\ rep # NotRunning
    BY <1>1, RunningIs
  <1>3. /\ rep.next \in Nat /\ rep.logs \subseteq Nat /\ rep.numbers \subseteq Nat /\ rep.tables \subseteq RepairInfo
        /\ rep.log \in Nat /\ rep.src \in Nat /\ rep.copy \in Nat /\ rep.got \subseteq FoundFiles
    BY <1>2 DEF RepairState
  <1>4. DirOK(dir) /\ DOMAIN dir \subseteq Nat /\ safe \subseteq FoundFiles
    BY <1>1 DEF RepairTypes, DirOK
  <1>5. \A n \in DOMAIN dir : dir[n] \in RepairFile
    BY <1>1 DEF RepairTypes, DirOK
  <1>6. \A n \in DOMAIN dir : dir[n].ents \subseteq FoundFiles
    BY <1>5 DEF RepairFile
  <1>7. \A n \in DOMAIN dir : n < rep.next
    BY <1>1, <1>2 DEF RepairLists
  <1>8. \A n \in DOMAIN dir : n # rep.next
    BY <1>3, <1>4, <1>7
  <1> QED
    BY <1>1, <1>2, <1>3, <1>4, <1>5, <1>6, <1>8

\* Every listed file is there.
LEMMA ListedAreFiles ==
    ASSUME RepairLists, rep # NotRunning
    PROVE  \A n \in ListedFiles : n \in DOMAIN dir
  BY DEF RepairLists, ListedFiles, IsLogFile, IsTableFile, GoodTable

\* A step that leaves the listed files and the lists alone.
LEMMA ListsKept ==
    ASSUME RepairLists, rep # NotRunning, safe' = safe,
           \A n \in ListedFiles : n \in DOMAIN dir' /\ dir'[n] = dir[n],
           rep'.logs = rep.logs, rep'.numbers = rep.numbers, rep'.tables = rep.tables,
           \A n \in DOMAIN dir' : n < rep'.next
    PROVE  RepairLists'
  <1>1. ListedFiles' = ListedFiles
    BY DEF ListedFiles
  <1>2. \A n \in rep.logs : IsLogFile(n)'
    BY DEF RepairLists, IsLogFile, ListedFiles
  <1>3. \A n \in rep.numbers : IsTableFile(n)'
    BY DEF RepairLists, IsTableFile, ListedFiles
  <1>4. \A t \in rep.tables : GoodTable(t)'
    <2> SUFFICES ASSUME NEW t \in rep.tables
                 PROVE  GoodTable(t)'
      OBVIOUS
    <2>1. t.number \in ListedFiles
      BY DEF ListedFiles
    <2>2. GoodTable(t)
      BY DEF RepairLists
    <2> QED
      BY <2>1, <2>2 DEF GoodTable, IsTableFile
  <1>5. \A e \in safe' : \E n \in ListedFiles' : e \in dir'[n].ents
    BY <1>1 DEF RepairLists
  <1> QED
    BY <1>2, <1>3, <1>4, <1>5 DEF RepairLists

\* A step that adds no entries to a damaged table.
LEMMA DamagedKept ==
    ASSUME DamagedUnsafe, safe' \subseteq safe,
           \A n \in DOMAIN dir' : \/ n \in DOMAIN dir /\ dir'[n] = dir[n]
                                  \/ ~dir'[n].damaged
                                  \/ dir'[n].ents = {}
    PROVE  DamagedUnsafe'
  BY DEF DamagedUnsafe

\* The conjuncts of the invariant after a step that leaves the repairer running.
LEMMA RunsOn ==
    ASSUME RepairInv, rep.pc # "stopped", manifest'.is # "new", DirOK(dir'), rep' \in RepairState,
           safe' \subseteq safe, DamagedUnsafe', RepairLists', RepairPhases'
    PROVE  RepairInv'
  <1>1. rep'.pc # "stopped"
    BY DEF RepairState, RepairPcs
  <1>2. (rep # NotRunning)'
    BY <1>1 DEF NotRunning
  <1>3. RepairEnds'
    BY DEF RepairEnds
  <1>4. RepairTypes'
    BY DEF RepairTypes, RepairInv
  <1>5. RepairExact'
    BY <1>2, <1>3, ExactWhileRunning, PTL
  <1> QED
    BY <1>3, <1>4, <1>5 DEF RepairInv

\* ConvertLogToTable keeps the log's entries listed.
LEMMA ConvertStep ==
    ASSUME RepairInv, NEW n \in DOMAIN dir, ConvertLogToTable(n)
    PROVE  RepairInv'
  <1>0. PICK num : num = rep.next
    OBVIOUS
  <1> DEFINE f == RepFile("table", dir[n].ents, FALSE)
  <1>1. /\ rep.pc = "logs" /\ n \in rep.logs /\ manifest' = manifest /\ safe' = safe
        /\ dir' = IF dir[n].ents # {} THEN WithFile(dir, num, f) ELSE dir
        /\ rep' = [rep EXCEPT !.pc = "archiveLog", !.next = num + 1, !.logs = @ \ {n},
                              !.numbers = IF dir[n].ents # {} THEN @ \cup {num} ELSE @, !.log = n]
    BY <1>0 DEF ConvertLogToTable, RepAt
  <1>2. rep.pc # "stopped"
    BY <1>1
  <1>3. /\ rep \in RepairState /\ rep # NotRunning /\ rep.next \in Nat /\ rep.logs \subseteq Nat
        /\ rep.numbers \subseteq Nat /\ DirOK(dir) /\ DOMAIN dir \subseteq Nat
        /\ \A m \in DOMAIN dir : dir[m] \in RepairFile /\ dir[m].ents \subseteq FoundFiles /\ m # rep.next
        /\ DamagedUnsafe /\ RepairLists /\ RepairEnds
    BY <1>2, RunningTypes
  <1>4. /\ rep'.pc = "archiveLog" /\ rep'.next = num + 1 /\ rep'.logs = rep.logs \ {n}
        /\ rep'.numbers = IF dir[n].ents # {} THEN rep.numbers \cup {num} ELSE rep.numbers
        /\ rep'.log = n /\ rep'.tables = rep.tables
    BY <1>1, <1>3 DEF RepairState
  <1>5. rep' \in RepairState
    <2>1. num \in Nat /\ num + 1 \in Nat /\ rep.logs \ {n} \subseteq Nat /\ n \in Nat
      BY <1>0, <1>3
    <2>2. rep'.numbers \subseteq Nat
      BY <1>3, <1>4, <2>1
    <2>3. "archiveLog" \in RepairPcs
      BY DEF RepairPcs
    <2> QED
      BY <1>1, <1>3, <1>4, <2>1, <2>2, <2>3 DEF RepairState
  <1>6. f \in RepairFile /\ f.kind = "table" /\ f.ents = dir[n].ents /\ f.damaged = FALSE
    BY <1>3, FileFields
  <1> HIDE DEF f
  <1>7. num \in Nat /\ num \notin DOMAIN dir
    BY <1>0, <1>3
  <1>8. DirOK(dir')
    BY <1>1, <1>3, <1>6, <1>7, WithFileOK
  <1>w. /\ DOMAIN WithFile(dir, num, f) = DOMAIN dir \cup {num}
        /\ WithFile(dir, num, f)[num] = f
        /\ \A m \in DOMAIN dir \ {num} : WithFile(dir, num, f)[m] = dir[m]
    BY DEF WithFile
  <1>9. \A m \in DOMAIN dir : m \in DOMAIN dir' /\ dir'[m] = dir[m]
    BY <1>1, <1>7, <1>w
  <1>10. \A m \in DOMAIN dir' : m \in DOMAIN dir \/ (dir[n].ents # {} /\ m = num)
    BY <1>1, <1>w
  <1>11. dir[n].ents # {} => num \in DOMAIN dir' /\ dir'[num] = f
    BY <1>1, <1>w
  <1>12. DamagedUnsafe'
    <2>1. \A m \in DOMAIN dir' : (m \in DOMAIN dir /\ dir'[m] = dir[m]) \/ ~dir'[m].damaged
      BY <1>6, <1>9, <1>10, <1>11
    <2> QED
      BY <1>1, <1>3, <2>1, DamagedKept
  <1>13. RepairLists'
    <2>1. \A m \in DOMAIN dir' : m < rep'.next
      <3>1. \A m \in DOMAIN dir : m < num + 1
        <4>1. \A m \in DOMAIN dir : m < num
          BY <1>0, <1>3 DEF RepairLists
        <4> QED
          BY <1>3, <1>7, <4>1
      <3>2. num < num + 1
        BY <1>7
      <3> QED
        BY <1>4, <1>10, <3>1, <3>2
    <2>2. \A m \in rep'.logs : IsLogFile(m)'
      BY <1>3, <1>4, <1>9 DEF RepairLists, IsLogFile
    <2>3. \A m \in rep'.numbers : IsTableFile(m)'
      <3>1. \A m \in rep.numbers : IsTableFile(m)'
        BY <1>3, <1>9 DEF RepairLists, IsTableFile
      <3>2. dir[n].ents # {} => IsTableFile(num)'
        BY <1>6, <1>11 DEF IsTableFile
      <3> QED
        BY <1>4, <3>1, <3>2
    <2>4. \A t \in rep'.tables : GoodTable(t)'
      BY <1>3, <1>4, <1>9 DEF RepairLists, GoodTable, IsTableFile
    <2>5. \A e \in safe' : \E m \in ListedFiles' : e \in dir'[m].ents
      <3> SUFFICES ASSUME NEW e \in safe
                   PROVE  \E m \in ListedFiles' : e \in dir'[m].ents
        BY <1>1
      <3>1. PICK m \in ListedFiles : e \in dir[m].ents
        BY <1>3 DEF RepairLists
      <3>2. m \in DOMAIN dir
        BY <1>3, ListedAreFiles
      <3>3. CASE m = n
        <4>1. dir[n].ents # {} /\ e \in f.ents
          BY <1>6, <3>1, <3>3
        <4>2. num \in ListedFiles'
          BY <1>4, <4>1 DEF ListedFiles
        <4> QED
          BY <1>11, <4>1, <4>2
      <3>4. CASE m # n
        <4>1. m \in ListedFiles'
          BY <1>4, <3>1, <3>4 DEF ListedFiles
        <4> QED
          BY <1>9, <3>1, <3>2, <4>1
      <3> QED
        BY <3>3, <3>4
    <2> QED
      BY <2>1, <2>2, <2>3, <2>4, <2>5 DEF RepairLists
  <1>14. RepairPhases'
    <2>1. IsLogFile(n)
      BY <1>1, <1>3 DEF RepairLists
    <2>2. n \in DOMAIN dir' /\ dir'[n].kind = "log"
      BY <1>9, <2>1 DEF IsLogFile
    <2> QED
      BY <1>4, <2>2 DEF RepairPhases, IsLogFile
  <1>15. manifest'.is # "new"
    BY <1>1, <1>3 DEF RepairEnds
  <1> QED
    BY <1>1, <1>2, <1>5, <1>8, <1>12, <1>13, <1>14, <1>15, RunsOn

\* A log whose table cannot be written takes its entries with it.
LEMMA ConvertFailsStep ==
    ASSUME RepairInv, NEW n \in DOMAIN dir, ConvertFails(n)
    PROVE  RepairInv'
  <1>1. /\ rep.pc = "logs" /\ n \in rep.logs /\ manifest' = manifest /\ safe' = safe \ dir[n].ents /\ dir' = dir
        /\ rep' = [rep EXCEPT !.pc = "archiveLog", !.next = @ + 1, !.logs = @ \ {n}, !.log = n]
    BY DEF ConvertFails, RepAt
  <1>2. rep.pc # "stopped"
    BY <1>1
  <1>3. /\ rep \in RepairState /\ rep # NotRunning /\ rep.next \in Nat /\ rep.logs \subseteq Nat
        /\ DirOK(dir) /\ DOMAIN dir \subseteq Nat /\ DamagedUnsafe /\ RepairLists /\ RepairEnds
    BY <1>2, RunningTypes
  <1>4. /\ rep'.pc = "archiveLog" /\ rep'.next = rep.next + 1 /\ rep'.logs = rep.logs \ {n}
        /\ rep'.numbers = rep.numbers /\ rep'.log = n /\ rep'.tables = rep.tables
    BY <1>1, <1>3 DEF RepairState
  <1>5. rep' \in RepairState
    <2>1. rep.next + 1 \in Nat /\ rep.logs \ {n} \subseteq Nat /\ n \in Nat
      BY <1>3
    <2>2. "archiveLog" \in RepairPcs
      BY DEF RepairPcs
    <2> QED
      BY <1>1, <1>3, <2>1, <2>2 DEF RepairState
  <1>6. DamagedUnsafe'
    BY <1>1, <1>3, DamagedKept
  <1>7. RepairLists'
    <2>1. \A m \in DOMAIN dir' : m < rep'.next
      <3>1. \A m \in DOMAIN dir : m < rep.next
        BY <1>3 DEF RepairLists
      <3> QED
        BY <1>1, <1>3, <1>4, <3>1
    <2>2. \A m \in rep'.logs : IsLogFile(m)'
      BY <1>1, <1>3, <1>4 DEF RepairLists, IsLogFile
    <2>3. \A m \in rep'.numbers : IsTableFile(m)'
      BY <1>1, <1>3, <1>4 DEF RepairLists, IsTableFile
    <2>4. \A t \in rep'.tables : GoodTable(t)'
      BY <1>1, <1>3, <1>4 DEF RepairLists, GoodTable, IsTableFile
    <2>5. \A e \in safe' : \E m \in ListedFiles' : e \in dir'[m].ents
      <3> SUFFICES ASSUME NEW e \in safe, e \notin dir[n].ents
                   PROVE  \E m \in ListedFiles' : e \in dir[m].ents
        BY <1>1
      <3>1. PICK m \in ListedFiles : e \in dir[m].ents
        BY <1>3 DEF RepairLists
      <3>2. m \in ListedFiles'
        BY <1>4, <3>1 DEF ListedFiles
      <3> QED
        BY <3>1, <3>2
    <2> QED
      BY <2>1, <2>2, <2>3, <2>4, <2>5 DEF RepairLists
  <1>8. RepairPhases'
    <2>1. IsLogFile(n)'
      BY <1>1, <1>3 DEF RepairLists, IsLogFile
    <2> QED
      BY <1>4, <2>1 DEF RepairPhases, IsLogFile
  <1>9. manifest'.is # "new"
    BY <1>1, <1>3 DEF RepairEnds
  <1>10. safe' \subseteq safe /\ DirOK(dir')
    BY <1>1, <1>3
  <1> QED
    BY <1>2, <1>5, <1>6, <1>7, <1>8, <1>9, <1>10, RunsOn

\* LogsDone only moves the repairer on.
LEMMA LogsDoneStep ==
    ASSUME RepairInv, LogsDone
    PROVE  RepairInv'
  <1>1. /\ rep.pc = "logs" /\ rep.logs = {} /\ rep' = [rep EXCEPT !.pc = "tables"]
        /\ manifest' = manifest /\ safe' = safe /\ dir' = dir
    BY DEF LogsDone, RepAt, RepGoes
  <1>2. rep.pc # "stopped"
    BY <1>1
  <1>3. rep \in RepairState /\ rep # NotRunning /\ DirOK(dir) /\ DamagedUnsafe /\ RepairLists /\ RepairEnds
    BY <1>2, RunningTypes
  <1>4. /\ rep'.pc = "tables" /\ rep'.next = rep.next /\ rep'.logs = rep.logs
        /\ rep'.numbers = rep.numbers /\ rep'.tables = rep.tables
    BY <1>1, <1>3 DEF RepairState
  <1>5. rep' \in RepairState
    BY <1>1, <1>3 DEF RepairState, RepairPcs
  <1>6. DamagedUnsafe'
    BY <1>1, <1>3, DamagedKept
  <1>7. RepairLists'
    <2>1. \A n \in DOMAIN dir' : n < rep'.next
      BY <1>1, <1>3, <1>4 DEF RepairLists
    <2>2. \A n \in ListedFiles : n \in DOMAIN dir' /\ dir'[n] = dir[n]
      BY <1>1, <1>3, ListedAreFiles
    <2> QED
      BY <1>1, <1>3, <1>4, <2>1, <2>2, ListsKept
  <1>8. RepairPhases'
    BY <1>1, <1>4 DEF RepairPhases
  <1>9. manifest'.is # "new" /\ safe' \subseteq safe /\ DirOK(dir')
    BY <1>1, <1>3 DEF RepairEnds
  <1> QED
    BY <1>2, <1>5, <1>6, <1>7, <1>8, <1>9, RunsOn

\* The log that goes to lost/ is on no list.
LEMMA ArchiveLogStep ==
    ASSUME RepairInv, ArchiveLog
    PROVE  RepairInv'
  <1>1. /\ rep.pc = "archiveLog" /\ rep' = [rep EXCEPT !.pc = "logs"]
        /\ manifest' = manifest /\ safe' = safe /\ dir' = WithoutFile(dir, rep.log)
    BY DEF ArchiveLog, RepAt, RepGoes
  <1>2. rep.pc # "stopped"
    BY <1>1
  <1>3. /\ rep \in RepairState /\ rep # NotRunning /\ DirOK(dir) /\ DamagedUnsafe /\ RepairLists
        /\ RepairPhases /\ RepairEnds
    BY <1>2, RunningTypes
  <1>4. /\ rep'.pc = "logs" /\ rep'.next = rep.next /\ rep'.logs = rep.logs
        /\ rep'.numbers = rep.numbers /\ rep'.tables = rep.tables
    BY <1>1, <1>3 DEF RepairState
  <1>5. rep' \in RepairState
    BY <1>1, <1>3 DEF RepairState, RepairPcs
  <1>6. DOMAIN dir' = DOMAIN dir \ {rep.log} /\ \A n \in DOMAIN dir \ {rep.log} : dir'[n] = dir[n]
    BY <1>1 DEF WithoutFile
  <1>7. IsLogFile(rep.log) /\ rep.log \notin rep.logs
    BY <1>1, <1>3 DEF RepairPhases
  <1>8. rep.log \notin ListedFiles
    <2>1. dir[rep.log].kind = "log"
      BY <1>7 DEF IsLogFile
    <2>2. \A n \in rep.numbers \cup {t.number : t \in rep.tables} : dir[n].kind = "table"
      BY <1>3 DEF RepairLists, IsTableFile, GoodTable
    <2> QED
      BY <1>7, <2>1, <2>2 DEF ListedFiles
  <1>9. DamagedUnsafe'
    <2>1. \A n \in DOMAIN dir' : n \in DOMAIN dir /\ dir'[n] = dir[n]
      BY <1>6
    <2> QED
      BY <1>1, <1>3, <2>1, DamagedKept
  <1>10. RepairLists'
    <2>1. \A n \in DOMAIN dir' : n < rep'.next
      BY <1>3, <1>4, <1>6 DEF RepairLists
    <2>2. \A n \in ListedFiles : n \in DOMAIN dir' /\ dir'[n] = dir[n]
      BY <1>3, <1>6, <1>8, ListedAreFiles
    <2> QED
      BY <1>1, <1>3, <1>4, <2>1, <2>2, ListsKept
  <1>11. RepairPhases'
    BY <1>4 DEF RepairPhases
  <1>12. manifest'.is # "new" /\ safe' \subseteq safe
    BY <1>1, <1>3 DEF RepairEnds
  <1>13. DirOK(dir')
    BY <1>1, <1>3, WithoutFileOK
  <1> QED
    BY <1>2, <1>5, <1>9, <1>10, <1>11, <1>12, <1>13, RunsOn

\* ScanTable lists a sound table with its largest entry; a damaged one holds
\* nothing that is promised.
LEMMA ScanTableStep ==
    ASSUME RepairInv, NEW n \in DOMAIN dir, ScanTable(n)
    PROVE  RepairInv'
  <1>1. rep.pc = "tables" /\ n \in rep.numbers /\ manifest' = manifest /\ safe' = safe /\ dir' = dir
    BY DEF ScanTable, RepAt
  <1>2. rep.pc # "stopped"
    BY <1>1
  <1>3. /\ rep \in RepairState /\ rep # NotRunning /\ DirOK(dir) /\ DamagedUnsafe /\ RepairLists
        /\ RepairPhases /\ RepairEnds /\ DOMAIN dir \subseteq Nat /\ rep.numbers \subseteq Nat
        /\ rep.tables \subseteq RepairInfo
        /\ \A m \in DOMAIN dir : dir[m] \in RepairFile /\ dir[m].ents \subseteq FoundFiles
    BY <1>2, RunningTypes
  <1>4. IsTableFile(n) /\ n < rep.next
    BY <1>1, <1>3 DEF RepairLists
  <1>5. rep.logs = {}
    BY <1>1, <1>3 DEF RepairPhases
  <1>6. manifest'.is # "new" /\ safe' \subseteq safe /\ DirOK(dir')
    BY <1>1, <1>3 DEF RepairEnds
  <1>7. DamagedUnsafe'
    BY <1>1, <1>3, DamagedKept
  <1>8. CASE dir[n].damaged
    <2>1. rep' = [rep EXCEPT !.pc = "copy", !.numbers = @ \ {n}, !.src = n]
      BY <1>8 DEF ScanTable
    <2>2. /\ rep'.pc = "copy" /\ rep'.next = rep.next /\ rep'.logs = rep.logs /\ rep'.src = n
          /\ rep'.numbers = rep.numbers \ {n} /\ rep'.tables = rep.tables
      BY <2>1, <1>3 DEF RepairState
    <2>3. rep' \in RepairState
      <3>1. n \in Nat /\ rep.numbers \ {n} \subseteq Nat
        BY <1>3
      <3> QED
        BY <2>1, <1>3, <3>1 DEF RepairState, RepairPcs
    <2>4. dir[n].ents \cap safe = {}
      BY <1>3, <1>4, <1>8 DEF DamagedUnsafe, IsTableFile
    <2>5. RepairLists'
      <3>1. \A m \in DOMAIN dir' : m < rep'.next
        BY <1>1, <1>3, <2>2 DEF RepairLists
      <3>2. \A m \in rep'.logs : IsLogFile(m)'
        BY <1>1, <1>3, <2>2 DEF RepairLists, IsLogFile
      <3>3. \A m \in rep'.numbers : IsTableFile(m)'
        BY <1>1, <1>3, <2>2 DEF RepairLists, IsTableFile
      <3>4. \A t \in rep'.tables : GoodTable(t)'
        BY <1>1, <1>3, <2>2 DEF RepairLists, GoodTable, IsTableFile
      <3>5. \A e \in safe' : \E m \in ListedFiles' : e \in dir'[m].ents
        <4> SUFFICES ASSUME NEW e \in safe
                     PROVE  \E m \in ListedFiles' : e \in dir[m].ents
          BY <1>1
        <4>1. PICK m \in ListedFiles : e \in dir[m].ents
          BY <1>3 DEF RepairLists
        <4>2. m # n
          BY <2>4, <4>1
        <4>3. m \in ListedFiles'
          BY <2>2, <4>1, <4>2 DEF ListedFiles
        <4> QED
          BY <4>1, <4>3
      <3> QED
        BY <3>1, <3>2, <3>3, <3>4, <3>5 DEF RepairLists
    <2>6. RepairPhases'
      <3>1. IsTableFile(n)' /\ dir'[n].damaged
        BY <1>1, <1>4, <1>8 DEF IsTableFile
      <3> QED
        BY <1>4, <1>5, <2>2, <3>1 DEF RepairPhases, IsTableFile
    <2> QED
      BY <1>2, <1>6, <1>7, <2>3, <2>5, <2>6, RunsOn
  <1>9. CASE ~dir[n].damaged
    <2> DEFINE t0 == Info(n, dir[n].ents)
    <2>1. rep' = [rep EXCEPT !.numbers = @ \ {n}, !.tables = @ \cup {t0}]
      BY <1>9 DEF ScanTable
    <2>2. /\ rep'.pc = "tables" /\ rep'.next = rep.next /\ rep'.logs = rep.logs
          /\ rep'.numbers = rep.numbers \ {n} /\ rep'.tables = rep.tables \cup {t0}
      BY <2>1, <1>1, <1>3 DEF RepairState
    <2>3. t0 \in RepairInfo /\ t0.number = n /\ \A e \in dir[n].ents : e <= t0.max
      <3>1. dir[n].ents \in SUBSET ({0} \cup FoundFiles)
        BY <1>3
      <3>2. /\ Max({0} \cup dir[n].ents) \in {0} \cup FoundFiles
            /\ \A e \in dir[n].ents : e <= Max({0} \cup dir[n].ents)
        BY <3>1, MaxEntry
      <3>3. n \in Nat
        BY <1>3
      <3> QED
        BY <3>2, <3>3 DEF Info, RepairInfo
    <2>4. rep' \in RepairState
      <3>1. rep.numbers \ {n} \subseteq Nat /\ rep.tables \cup {t0} \subseteq RepairInfo
        BY <1>3, <2>3
      <3> HIDE DEF t0
      <3> QED
        BY <2>1, <1>3, <3>1 DEF RepairState, RepairPcs
    <2> HIDE DEF t0
    <2>5. RepairLists'
      <3>1. \A m \in DOMAIN dir' : m < rep'.next
        BY <1>1, <1>3, <2>2 DEF RepairLists
      <3>2. \A m \in rep'.logs : IsLogFile(m)'
        BY <1>1, <1>3, <2>2 DEF RepairLists, IsLogFile
      <3>3. \A m \in rep'.numbers : IsTableFile(m)'
        BY <1>1, <1>3, <2>2 DEF RepairLists, IsTableFile
      <3>4. \A t \in rep'.tables : GoodTable(t)'
        <4>1. \A t \in rep.tables : GoodTable(t)'
          BY <1>1, <1>3 DEF RepairLists, GoodTable, IsTableFile
        <4>2. PICK u : u = t0
          OBVIOUS
        <4>3. GoodTable(u)'
          BY <1>1, <1>4, <1>9, <2>3, <4>2 DEF GoodTable, IsTableFile
        <4> QED
          BY <2>2, <4>1, <4>2, <4>3
      <3>5. \A e \in safe' : \E m \in ListedFiles' : e \in dir'[m].ents
        <4> SUFFICES ASSUME NEW e \in safe
                     PROVE  \E m \in ListedFiles' : e \in dir[m].ents
          BY <1>1
        <4>1. PICK m \in ListedFiles : e \in dir[m].ents
          BY <1>3 DEF RepairLists
        <4>2. m \in ListedFiles'
          BY <2>2, <2>3, <4>1 DEF ListedFiles
        <4> QED
          BY <4>1, <4>2
      <3> QED
        BY <3>1, <3>2, <3>3, <3>4, <3>5 DEF RepairLists
    <2>6. RepairPhases'
      BY <1>5, <2>2 DEF RepairPhases
    <2> QED
      BY <1>2, <1>6, <1>7, <2>4, <2>5, <2>6, RunsOn
  <1> QED
    BY <1>8, <1>9

\* The copy has a number of its own and is unreadable at first.
LEMMA CopyTableStep ==
    ASSUME RepairInv, CopyTable
    PROVE  RepairInv'
  <1>0. PICK num : num = rep.next
    OBVIOUS
  <1> DEFINE f == RepFile("table", {}, TRUE)
  <1>1. /\ rep.pc = "copy" /\ manifest' = manifest /\ safe' = safe /\ dir' = WithFile(dir, num, f)
        /\ rep' = [rep EXCEPT !.pc = "archiveSrc", !.next = @ + 1, !.copy = rep.next, !.got = dir[rep.src].ents]
    BY <1>0 DEF CopyTable, RepAt
  <1>2. rep.pc # "stopped"
    BY <1>1
  <1>3. /\ rep \in RepairState /\ rep # NotRunning /\ DirOK(dir) /\ DamagedUnsafe /\ RepairLists
        /\ RepairPhases /\ RepairEnds /\ DOMAIN dir \subseteq Nat /\ rep.next \in Nat /\ rep.src \in Nat
        /\ \A m \in DOMAIN dir : dir[m] \in RepairFile /\ dir[m].ents \subseteq FoundFiles /\ m # rep.next
    BY <1>2, RunningTypes
  <1>4. /\ IsTableFile(rep.src) /\ dir[rep.src].damaged /\ rep.src \notin rep.numbers /\ rep.src < rep.next
        /\ rep.logs = {}
    BY <1>1, <1>3 DEF RepairPhases
  <1>5. /\ rep'.pc = "archiveSrc" /\ rep'.next = num + 1 /\ rep'.logs = rep.logs /\ rep'.src = rep.src
        /\ rep'.numbers = rep.numbers /\ rep'.tables = rep.tables /\ rep'.copy = num
    BY <1>0, <1>1, <1>3 DEF RepairState
  <1>6. rep' \in RepairState
    <2>1. rep.next + 1 \in Nat /\ dir[rep.src].ents \subseteq FoundFiles
      BY <1>3, <1>4 DEF IsTableFile
    <2> QED
      BY <1>1, <1>3, <2>1 DEF RepairState, RepairPcs
  <1>7. f \in RepairFile /\ f.kind = "table" /\ f.ents = {}
    BY FileFields
  <1> HIDE DEF f
  <1>8. num \in Nat /\ num \notin DOMAIN dir
    BY <1>0, <1>3
  <1>9. DirOK(dir')
    BY <1>1, <1>3, <1>7, <1>8, WithFileOK
  <1>10. /\ DOMAIN dir' = DOMAIN dir \cup {num} /\ dir'[num] = f
         /\ \A m \in DOMAIN dir : dir'[m] = dir[m]
    BY <1>1, <1>8 DEF WithFile
  <1>11. DamagedUnsafe'
    <2>1. \A m \in DOMAIN dir' : (m \in DOMAIN dir /\ dir'[m] = dir[m]) \/ dir'[m].ents = {}
      BY <1>7, <1>10
    <2> QED
      BY <1>1, <1>3, <2>1, DamagedKept
  <1>12. RepairLists'
    <2>1. \A n \in DOMAIN dir' : n < rep'.next
      <3>1. \A m \in DOMAIN dir : m < num
        BY <1>0, <1>3 DEF RepairLists
      <3>2. \A m \in DOMAIN dir : m < num + 1
        BY <1>3, <1>8, <3>1
      <3>3. num < num + 1
        BY <1>8
      <3> QED
        BY <1>5, <1>10, <3>2, <3>3
    <2>2. \A n \in ListedFiles : n \in DOMAIN dir' /\ dir'[n] = dir[n]
      BY <1>3, <1>10, ListedAreFiles
    <2> QED
      BY <1>1, <1>3, <1>5, <2>1, <2>2, ListsKept
  <1>13. RepairPhases'
    <2>1. rep.src < num + 1 /\ num # rep.src
      BY <1>0, <1>3, <1>4
    <2>2. rep.src \in DOMAIN dir' /\ dir'[rep.src].kind = "table" /\ dir'[rep.src].damaged
      BY <1>4, <1>10 DEF IsTableFile
    <2>3. num \in DOMAIN dir' /\ dir'[num].kind = "table"
      BY <1>7, <1>10
    <2>4. num \notin ListedFiles
      BY <1>3, <1>8, ListedAreFiles
    <2>5. num \notin rep.numbers /\ \A t \in rep.tables : t.number # num
      BY <2>4 DEF ListedFiles
    <2> QED
      BY <1>4, <1>5, <2>1, <2>2, <2>3, <2>5 DEF RepairPhases, IsTableFile
  <1>14. manifest'.is # "new" /\ safe' \subseteq safe
    BY <1>1, <1>3 DEF RepairEnds
  <1> QED
    BY <1>2, <1>6, <1>9, <1>11, <1>12, <1>13, <1>14, RunsOn

\* Without a copy the source stays.
LEMMA CopyFailsStep ==
    ASSUME RepairInv, CopyFails
    PROVE  RepairInv'
  <1>1. /\ rep.pc = "copy" /\ manifest' = manifest /\ safe' = safe /\ dir' = dir
        /\ rep' = [rep EXCEPT !.pc = "tables", !.next = @ + 1]
    BY DEF CopyFails, RepAt
  <1>2. rep.pc # "stopped"
    BY <1>1
  <1>3. /\ rep \in RepairState /\ rep # NotRunning /\ DirOK(dir) /\ DamagedUnsafe /\ RepairLists
        /\ RepairPhases /\ RepairEnds /\ DOMAIN dir \subseteq Nat /\ rep.next \in Nat
    BY <1>2, RunningTypes
  <1>4. /\ rep'.pc = "tables" /\ rep'.next = rep.next + 1 /\ rep'.logs = rep.logs
        /\ rep'.numbers = rep.numbers /\ rep'.tables = rep.tables
    BY <1>1, <1>3 DEF RepairState
  <1>5. rep' \in RepairState
    <2>1. rep.next + 1 \in Nat
      BY <1>3
    <2> QED
      BY <1>1, <1>3, <2>1 DEF RepairState, RepairPcs
  <1>6. DamagedUnsafe'
    BY <1>1, <1>3, DamagedKept
  <1>7. RepairLists'
    <2>1. \A n \in DOMAIN dir' : n < rep'.next
      <3>1. \A n \in DOMAIN dir : n < rep.next
        BY <1>3 DEF RepairLists
      <3> QED
        BY <1>1, <1>3, <1>4, <3>1
    <2>2. \A n \in ListedFiles : n \in DOMAIN dir' /\ dir'[n] = dir[n]
      BY <1>1, <1>3, ListedAreFiles
    <2> QED
      BY <1>1, <1>3, <1>4, <2>1, <2>2, ListsKept
  <1>8. RepairPhases'
    <2>1. rep.logs = {}
      BY <1>1, <1>3 DEF RepairPhases
    <2> QED
      BY <1>4, <2>1 DEF RepairPhases
  <1>9. manifest'.is # "new" /\ safe' \subseteq safe /\ DirOK(dir')
    BY <1>1, <1>3 DEF RepairEnds
  <1> QED
    BY <1>2, <1>5, <1>6, <1>7, <1>8, <1>9, RunsOn

\* The source that goes to lost/ is on no list.
LEMMA ArchiveSrcStep ==
    ASSUME RepairInv, ArchiveSrc
    PROVE  RepairInv'
  <1>1. /\ rep.pc = "archiveSrc" /\ manifest' = manifest /\ safe' = safe /\ dir' = WithoutFile(dir, rep.src)
        /\ rep' = [rep EXCEPT !.pc = IF rep.got = {} THEN "tables" ELSE "finish"]
    BY DEF ArchiveSrc, RepAt, RepGoes
  <1>2. rep.pc # "stopped"
    BY <1>1
  <1>3. /\ rep \in RepairState /\ rep # NotRunning /\ DirOK(dir) /\ DamagedUnsafe /\ RepairLists
        /\ RepairPhases /\ RepairEnds
    BY <1>2, RunningTypes
  <1>4. /\ IsTableFile(rep.src) /\ dir[rep.src].damaged /\ rep.src \notin rep.numbers /\ rep.src < rep.next
        /\ IsTableFile(rep.copy) /\ rep.copy \notin rep.numbers /\ rep.copy # rep.src
        /\ \A t \in rep.tables : t.number # rep.copy
        /\ rep.logs = {}
    BY <1>1, <1>3 DEF RepairPhases
  <1>5. /\ rep'.pc \in {"tables", "finish"} /\ rep'.next = rep.next /\ rep'.logs = rep.logs /\ rep'.src = rep.src
        /\ rep'.numbers = rep.numbers /\ rep'.tables = rep.tables /\ rep'.copy = rep.copy
    BY <1>1, <1>3 DEF RepairState
  <1>6. rep' \in RepairState
    BY <1>1, <1>3 DEF RepairState, RepairPcs
  <1>7. DOMAIN dir' = DOMAIN dir \ {rep.src} /\ \A n \in DOMAIN dir \ {rep.src} : dir'[n] = dir[n]
    BY <1>1 DEF WithoutFile
  <1>8. rep.src \notin ListedFiles
    <2>1. \A t \in rep.tables : ~dir[t.number].damaged
      BY <1>3 DEF RepairLists, GoodTable
    <2> QED
      BY <1>4, <2>1 DEF ListedFiles
  <1>9. DamagedUnsafe'
    <2>1. \A n \in DOMAIN dir' : n \in DOMAIN dir /\ dir'[n] = dir[n]
      BY <1>7
    <2> QED
      BY <1>1, <1>3, <2>1, DamagedKept
  <1>10. RepairLists'
    <2>1. \A n \in DOMAIN dir' : n < rep'.next
      BY <1>3, <1>5, <1>7 DEF RepairLists
    <2>2. \A n \in ListedFiles : n \in DOMAIN dir' /\ dir'[n] = dir[n]
      BY <1>3, <1>7, <1>8, ListedAreFiles
    <2> QED
      BY <1>1, <1>3, <1>5, <2>1, <2>2, ListsKept
  <1>11. RepairPhases'
    <2>1. rep.src \notin DOMAIN dir' /\ rep.copy \in DOMAIN dir' /\ dir'[rep.copy].kind = "table"
      BY <1>4, <1>7 DEF IsTableFile
    <2> QED
      BY <1>4, <1>5, <2>1 DEF RepairPhases, IsTableFile
  <1>12. manifest'.is # "new" /\ safe' \subseteq safe
    BY <1>1, <1>3 DEF RepairEnds
  <1>13. DirOK(dir')
    BY <1>1, <1>3, WithoutFileOK
  <1> QED
    BY <1>2, <1>6, <1>9, <1>10, <1>11, <1>12, <1>13, RunsOn

\* The copy is on no list while it is made.
LEMMA CopyNotListed ==
    ASSUME RepairPhases, rep # NotRunning, rep.pc \in {"finish", "rename"}
    PROVE  /\ rep.copy \notin ListedFiles /\ rep.src \notin DOMAIN dir /\ IsTableFile(rep.copy)
           /\ rep.copy # rep.src /\ rep.copy \notin rep.numbers /\ rep.logs = {} /\ rep.src < rep.next
           /\ \A t \in rep.tables : t.number # rep.copy
           /\ rep.pc = "rename" => dir[rep.copy] = RepFile("table", rep.got, FALSE)
  BY DEF RepairPhases, ListedFiles

\* The finished copy is sound.
LEMMA FinishCopyStep ==
    ASSUME RepairInv, FinishCopy
    PROVE  RepairInv'
  <1> DEFINE f == RepFile("table", rep.got, FALSE)
  <1>1. /\ rep.pc = "finish" /\ manifest' = manifest /\ safe' = safe /\ dir' = [dir EXCEPT ![rep.copy] = f]
        /\ rep' = [rep EXCEPT !.pc = "rename"]
    BY DEF FinishCopy, RepAt, RepGoes
  <1>2. rep.pc # "stopped"
    BY <1>1
  <1>3. /\ rep \in RepairState /\ rep # NotRunning /\ DirOK(dir) /\ DamagedUnsafe /\ RepairLists
        /\ RepairPhases /\ RepairEnds /\ rep.got \subseteq FoundFiles
    BY <1>2, RunningTypes
  <1>4. /\ rep.copy \notin ListedFiles /\ rep.src \notin DOMAIN dir /\ IsTableFile(rep.copy)
        /\ rep.copy # rep.src /\ rep.copy \notin rep.numbers /\ rep.logs = {} /\ rep.src < rep.next
        /\ \A t \in rep.tables : t.number # rep.copy
    BY <1>1, <1>3, CopyNotListed
  <1>5. /\ rep'.pc = "rename" /\ rep'.next = rep.next /\ rep'.logs = rep.logs /\ rep'.src = rep.src
        /\ rep'.numbers = rep.numbers /\ rep'.tables = rep.tables /\ rep'.copy = rep.copy /\ rep'.got = rep.got
    BY <1>1, <1>3 DEF RepairState
  <1>6. rep' \in RepairState
    BY <1>1, <1>3 DEF RepairState, RepairPcs
  <1>7. f \in RepairFile /\ f.kind = "table" /\ f.damaged = FALSE
    BY <1>3, FileFields
  <1>f. f = RepFile("table", rep.got, FALSE)
    OBVIOUS
  <1> HIDE DEF f
  <1>8. rep.copy \in DOMAIN dir
    BY <1>4 DEF IsTableFile
  <1>9. DOMAIN dir' = DOMAIN dir /\ dir'[rep.copy] = f /\ \A n \in DOMAIN dir \ {rep.copy} : dir'[n] = dir[n]
    BY <1>1, <1>8
  <1>10. DirOK(dir')
    <2>1. dir' \in [DOMAIN dir' -> RepairFile]
      BY <1>1, <1>3, <1>7 DEF DirOK
    <2> QED
      BY <1>3, <1>9, <2>1 DEF DirOK
  <1>11. DamagedUnsafe'
    <2>1. \A n \in DOMAIN dir' : (n \in DOMAIN dir /\ dir'[n] = dir[n]) \/ ~dir'[n].damaged
      BY <1>7, <1>9
    <2> QED
      BY <1>1, <1>3, <2>1, DamagedKept
  <1>12. RepairLists'
    <2>1. \A n \in DOMAIN dir' : n < rep'.next
      BY <1>3, <1>5, <1>9 DEF RepairLists
    <2>2. \A n \in ListedFiles : n \in DOMAIN dir' /\ dir'[n] = dir[n]
      BY <1>3, <1>4, <1>9, ListedAreFiles
    <2> QED
      BY <1>1, <1>3, <1>5, <2>1, <2>2, ListsKept
  <1>13. RepairPhases'
    <2>1. rep.copy \in DOMAIN dir' /\ dir'[rep.copy].kind = "table" /\ rep.src \notin DOMAIN dir'
      BY <1>4, <1>7, <1>8, <1>9
    <2>2. dir'[rep.copy] = RepFile("table", rep'.got, FALSE)
      BY <1>5, <1>9, <1>f
    <2> QED
      BY <1>4, <1>5, <2>1, <2>2 DEF RepairPhases, IsTableFile
  <1>14. manifest'.is # "new" /\ safe' \subseteq safe
    BY <1>1, <1>3 DEF RepairEnds
  <1> QED
    BY <1>2, <1>6, <1>10, <1>11, <1>12, <1>13, <1>14, RunsOn

\* A copy that fails is deleted; it was on no list.
LEMMA FinishFailsStep ==
    ASSUME RepairInv, FinishFails
    PROVE  RepairInv'
  <1>1. /\ rep.pc \in {"finish", "rename"} /\ manifest' = manifest /\ safe' = safe
        /\ dir' = WithoutFile(dir, rep.copy)
        /\ rep' = [rep EXCEPT !.pc = "tables"]
    BY DEF FinishFails, RepAt, RepGoes
  <1>2. rep.pc # "stopped"
    BY <1>1
  <1>3. /\ rep \in RepairState /\ rep # NotRunning /\ DirOK(dir) /\ DamagedUnsafe /\ RepairLists
        /\ RepairPhases /\ RepairEnds
    BY <1>2, RunningTypes
  <1>4. rep.copy \notin ListedFiles /\ rep.logs = {}
    BY <1>1, <1>3, CopyNotListed
  <1>5. /\ rep'.pc = "tables" /\ rep'.next = rep.next /\ rep'.logs = rep.logs
        /\ rep'.numbers = rep.numbers /\ rep'.tables = rep.tables
    BY <1>1, <1>3 DEF RepairState
  <1>6. rep' \in RepairState
    BY <1>1, <1>3 DEF RepairState, RepairPcs
  <1>7. DOMAIN dir' = DOMAIN dir \ {rep.copy} /\ \A n \in DOMAIN dir \ {rep.copy} : dir'[n] = dir[n]
    BY <1>1 DEF WithoutFile
  <1>8. DamagedUnsafe'
    <2>1. \A n \in DOMAIN dir' : n \in DOMAIN dir /\ dir'[n] = dir[n]
      BY <1>7
    <2> QED
      BY <1>1, <1>3, <2>1, DamagedKept
  <1>9. RepairLists'
    <2>1. \A n \in DOMAIN dir' : n < rep'.next
      BY <1>3, <1>5, <1>7 DEF RepairLists
    <2>2. \A n \in ListedFiles : n \in DOMAIN dir' /\ dir'[n] = dir[n]
      BY <1>3, <1>4, <1>7, ListedAreFiles
    <2> QED
      BY <1>1, <1>3, <1>5, <2>1, <2>2, ListsKept
  <1>10. RepairPhases'
    BY <1>4, <1>5 DEF RepairPhases
  <1>11. manifest'.is # "new" /\ safe' \subseteq safe
    BY <1>1, <1>3 DEF RepairEnds
  <1>12. DirOK(dir')
    BY <1>1, <1>3, WithoutFileOK
  <1> QED
    BY <1>2, <1>6, <1>8, <1>9, <1>10, <1>11, <1>12, RunsOn

\* The renamed copy takes the source's place, listed with its largest entry.
LEMMA RenameCopyStep ==
    ASSUME RepairInv, RenameCopy
    PROVE  RepairInv'
  <1> DEFINE t0 == Info(rep.src, rep.got)
             d == WithoutFile(dir, rep.copy)
  <1>1. /\ rep.pc = "rename" /\ manifest' = manifest /\ safe' = safe
        /\ dir' = WithFile(d, rep.src, dir[rep.copy])
        /\ rep' = [rep EXCEPT !.pc = "tables", !.tables = @ \cup {t0}]
    BY DEF RenameCopy, RepAt
  <1>2. rep.pc # "stopped"
    BY <1>1
  <1>3. /\ rep \in RepairState /\ rep # NotRunning /\ DirOK(dir) /\ DamagedUnsafe /\ RepairLists
        /\ RepairPhases /\ RepairEnds /\ rep.got \subseteq FoundFiles /\ rep.tables \subseteq RepairInfo
        /\ rep.src \in Nat /\ \A n \in DOMAIN dir : dir[n] \in RepairFile
    BY <1>2, RunningTypes
  <1>4. /\ rep.copy \notin ListedFiles /\ rep.src \notin DOMAIN dir /\ IsTableFile(rep.copy)
        /\ rep.copy # rep.src /\ rep.logs = {} /\ rep.src < rep.next
        /\ dir[rep.copy] = RepFile("table", rep.got, FALSE)
    BY <1>1, <1>3, CopyNotListed
  <1>5. rep.copy \in DOMAIN dir /\ dir[rep.copy] \in RepairFile
    BY <1>3, <1>4 DEF IsTableFile
  <1>6. dir[rep.copy].kind = "table" /\ dir[rep.copy].ents = rep.got /\ dir[rep.copy].damaged = FALSE
    BY <1>4 DEF RepFile
  <1>7. t0 \in RepairInfo /\ t0.number = rep.src /\ \A e \in rep.got : e <= t0.max
    <2>1. rep.got \in SUBSET ({0} \cup FoundFiles)
      BY <1>3
    <2>2. /\ Max({0} \cup rep.got) \in {0} \cup FoundFiles
          /\ \A e \in rep.got : e <= Max({0} \cup rep.got)
      BY <2>1, MaxEntry
    <2> QED
      BY <1>3, <2>2 DEF Info, RepairInfo
  <1> HIDE DEF t0
  <1>8. /\ rep'.pc = "tables" /\ rep'.next = rep.next /\ rep'.logs = rep.logs
        /\ rep'.numbers = rep.numbers /\ rep'.tables = rep.tables \cup {t0}
    BY <1>1, <1>3 DEF RepairState
  <1>9. rep' \in RepairState
    <2>1. rep.tables \cup {t0} \subseteq RepairInfo
      BY <1>3, <1>7
    <2> QED
      BY <1>1, <1>3, <2>1 DEF RepairState, RepairPcs
  <1>10. DirOK(d)
    BY <1>3, WithoutFileOK
  <1>11. DOMAIN d = DOMAIN dir \ {rep.copy} /\ \A n \in DOMAIN dir \ {rep.copy} : d[n] = dir[n]
    BY DEF WithoutFile
  <1> HIDE DEF d
  <1>12. DirOK(dir')
    BY <1>1, <1>3, <1>5, <1>10, WithFileOK
  <1>13. /\ DOMAIN dir' = DOMAIN d \cup {rep.src} /\ dir'[rep.src] = dir[rep.copy]
         /\ \A n \in DOMAIN d \ {rep.src} : dir'[n] = d[n]
    BY <1>1 DEF WithFile
  <1>14. /\ DOMAIN dir' = (DOMAIN dir \ {rep.copy}) \cup {rep.src}
         /\ \A n \in DOMAIN dir \ {rep.copy} : n \in DOMAIN dir' /\ dir'[n] = dir[n]
    BY <1>4, <1>11, <1>13
  <1>15. DamagedUnsafe'
    <2>1. \A n \in DOMAIN dir' : (n \in DOMAIN dir /\ dir'[n] = dir[n]) \/ ~dir'[n].damaged
      BY <1>6, <1>13, <1>14
    <2> QED
      BY <1>1, <1>3, <2>1, DamagedKept
  <1>16. RepairLists'
    <2>0. \A n \in ListedFiles : n \in DOMAIN dir' /\ dir'[n] = dir[n]
      <3>1. \A n \in ListedFiles : n \in DOMAIN dir /\ n # rep.copy
        BY <1>3, <1>4, ListedAreFiles
      <3> QED
        BY <1>14, <3>1
    <2>1. \A n \in DOMAIN dir' : n < rep'.next
      BY <1>3, <1>4, <1>8, <1>14 DEF RepairLists
    <2>2. \A n \in rep'.logs : IsLogFile(n)'
      BY <1>4, <1>8
    <2>3. \A n \in rep'.numbers : IsTableFile(n)'
      BY <1>3, <1>8, <2>0 DEF RepairLists, IsTableFile, ListedFiles
    <2>4. \A t \in rep'.tables : GoodTable(t)'
      <3>1. \A t \in rep.tables : GoodTable(t)'
        <4> SUFFICES ASSUME NEW t \in rep.tables
                     PROVE  GoodTable(t)'
          OBVIOUS
        <4>1. t.number \in ListedFiles
          BY DEF ListedFiles
        <4>2. GoodTable(t)
          BY <1>3 DEF RepairLists
        <4> QED
          BY <2>0, <4>1, <4>2 DEF GoodTable, IsTableFile
      <3>2. PICK u : u = t0
        OBVIOUS
      <3>3. GoodTable(u)'
        <4>1. u.number = rep.src /\ \A e \in rep.got : e <= u.max
          BY <1>7, <3>2
        <4>2. rep.src \in DOMAIN dir'
          BY <1>14
        <4> QED
          BY <1>6, <1>13, <4>1, <4>2 DEF GoodTable, IsTableFile
      <3> QED
        BY <1>8, <3>1, <3>2, <3>3
    <2>5. \A e \in safe' : \E n \in ListedFiles' : e \in dir'[n].ents
      <3> SUFFICES ASSUME NEW e \in safe
                   PROVE  \E n \in ListedFiles' : e \in dir'[n].ents
        BY <1>1
      <3>1. PICK n \in ListedFiles : e \in dir[n].ents
        BY <1>3 DEF RepairLists
      <3>2. n \in ListedFiles'
        BY <1>8, <3>1 DEF ListedFiles
      <3> QED
        BY <2>0, <3>1, <3>2
    <2> QED
      BY <2>1, <2>2, <2>3, <2>4, <2>5 DEF RepairLists
  <1>17. RepairPhases'
    BY <1>4, <1>8 DEF RepairPhases
  <1>18. manifest'.is # "new" /\ safe' \subseteq safe
    BY <1>1, <1>3 DEF RepairEnds
  <1> QED
    BY <1>2, <1>9, <1>12, <1>15, <1>16, <1>17, <1>18, RunsOn

\* The old manifests go once every table is scanned.
LEMMA ArchiveManifestsStep ==
    ASSUME RepairInv, ArchiveManifests
    PROVE  RepairInv'
  <1>1. /\ rep.pc = "tables" /\ rep.numbers = {} /\ rep' = [rep EXCEPT !.pc = "descriptor"]
        /\ manifest' = [is |-> "none"] /\ safe' = safe /\ dir' = dir
    BY DEF ArchiveManifests, RepAt, RepGoes
  <1>2. rep.pc # "stopped"
    BY <1>1
  <1>3. /\ rep \in RepairState /\ rep # NotRunning /\ DirOK(dir) /\ DamagedUnsafe /\ RepairLists
        /\ RepairPhases
    BY <1>2, RunningTypes
  <1>4. /\ rep'.pc = "descriptor" /\ rep'.next = rep.next /\ rep'.logs = rep.logs
        /\ rep'.numbers = rep.numbers /\ rep'.tables = rep.tables
    BY <1>1, <1>3 DEF RepairState
  <1>5. rep' \in RepairState
    BY <1>1, <1>3 DEF RepairState, RepairPcs
  <1>6. DamagedUnsafe'
    BY <1>1, <1>3, DamagedKept
  <1>7. RepairLists'
    <2>1. \A n \in DOMAIN dir' : n < rep'.next
      BY <1>1, <1>3, <1>4 DEF RepairLists
    <2>2. \A n \in ListedFiles : n \in DOMAIN dir' /\ dir'[n] = dir[n]
      BY <1>1, <1>3, ListedAreFiles
    <2> QED
      BY <1>1, <1>3, <1>4, <2>1, <2>2, ListsKept
  <1>8. RepairPhases'
    <2>1. rep.logs = {}
      BY <1>1, <1>3 DEF RepairPhases
    <2> QED
      BY <1>1, <1>4, <2>1 DEF RepairPhases
  <1>9. manifest'.is # "new" /\ safe' \subseteq safe /\ DirOK(dir')
    BY <1>1, <1>3
  <1> QED
    BY <1>2, <1>5, <1>6, <1>7, <1>8, <1>9, RunsOn

\* The descriptor lists all that is promised.
LEMMA InstallDescriptorStep ==
    ASSUME RepairInv, InstallDescriptor
    PROVE  RepairInv'
  <1> DEFINE maxes == {t.max : t \in rep.tables}
             last == Max({0} \cup maxes)
  <1>1. /\ rep.pc = "descriptor" /\ rep' = NotRunning /\ safe' = safe /\ dir' = dir
        /\ manifest' = [is |-> "new", next |-> rep.next, last |-> last, tables |-> {t.number : t \in rep.tables}]
    BY DEF InstallDescriptor, RepAt, Descriptor
  <1>2. rep.pc # "stopped"
    BY <1>1
  <1>3. /\ rep # NotRunning /\ DirOK(dir) /\ DamagedUnsafe /\ RepairLists /\ RepairPhases
        /\ rep.tables \subseteq RepairInfo /\ safe \subseteq FoundFiles
        /\ \A n \in DOMAIN dir : dir[n].ents \subseteq FoundFiles
    BY <1>2, RunningTypes
  <1>4. rep.logs = {} /\ rep.numbers = {}
    BY <1>1, <1>3 DEF RepairPhases
  <1>5. last \in {0} \cup FoundFiles /\ \A t \in rep.tables : t.max <= last
    <2>1. maxes \in SUBSET ({0} \cup FoundFiles)
      BY <1>3 DEF RepairInfo
    <2>2. \A t \in rep.tables : t.max \in maxes
      OBVIOUS
    <2> HIDE DEF maxes
    <2>3. Max({0} \cup maxes) \in {0} \cup FoundFiles /\ \A e \in maxes : e <= Max({0} \cup maxes)
      BY <2>1, MaxEntry
    <2> QED
      BY <2>2, <2>3
  <1> HIDE DEF last, maxes
  <1>6. /\ manifest'.tables = {t.number : t \in rep.tables} /\ manifest'.last = last /\ manifest'.next = rep.next
    BY <1>1
  <1>7. ListedFiles = manifest'.tables
    BY <1>4, <1>6 DEF ListedFiles
  <1>8. \A t \in rep.tables : GoodTable(t)
    BY <1>3 DEF RepairLists
  <1>9. \A n \in manifest'.tables :
           /\ n \in DOMAIN dir /\ dir[n].kind = "table" /\ ~dir[n].damaged
           /\ \A e \in dir[n].ents : e <= last
    <2> SUFFICES ASSUME NEW t \in rep.tables
                 PROVE  /\ t.number \in DOMAIN dir /\ dir[t.number].kind = "table" /\ ~dir[t.number].damaged
                        /\ \A e \in dir[t.number].ents : e <= last
      BY <1>6
    <2>1. t.number \in DOMAIN dir /\ dir[t.number].kind = "table" /\ ~dir[t.number].damaged
      BY <1>8 DEF GoodTable, IsTableFile
    <2>2. \A e \in dir[t.number].ents : e <= t.max /\ e \in FoundFiles
      BY <1>3, <1>8, <2>1 DEF GoodTable
    <2>3. t.max <= last /\ t.max \in {0} \cup FoundFiles
      BY <1>3, <1>5 DEF RepairInfo
    <2>4. FoundFiles \subseteq Nat /\ {0} \cup FoundFiles \subseteq Nat
      BY RepairAssumption
    <2>5. \A e \in dir[t.number].ents : e <= last
      <3> SUFFICES ASSUME NEW e \in dir[t.number].ents
                   PROVE  e <= last
        OBVIOUS
      <3>1. e \in Nat /\ e <= t.max
        BY <2>2, <2>4
      <3>2. t.max \in Nat
        BY <2>3, <2>4
      <3>3. last \in Nat
        BY <1>5, <2>4
      <3> QED
        BY <2>3, <3>1, <3>2, <3>3
    <2> QED
      BY <2>1, <2>5
  <1>10. \A e \in safe : \E n \in manifest'.tables : e \in dir[n].ents
    BY <1>3, <1>7 DEF RepairLists
  <1>11. \A n \in DOMAIN dir : n < manifest'.next
    BY <1>3, <1>6 DEF RepairLists
  <1>12. RepairExact'
    <2>1. RepairKeeps'
      BY <1>1, <1>9, <1>10 DEF RepairKeeps
    <2>2. RepairedWhole'
      <3>1. manifest'.tables \subseteq DOMAIN dir
        BY <1>9
      <3>2. \A n \in manifest'.tables : dir[n].kind = "table" /\ ~dir[n].damaged
        BY <1>9
      <3>3. safe \subseteq UNION {dir[n].ents : n \in manifest'.tables}
        BY <1>10
      <3>4. \A e \in UNION {dir[n].ents : n \in manifest'.tables} : e <= manifest'.last
        BY <1>6, <1>9
      <3> QED
        BY <1>1, <1>11, <3>1, <3>2, <3>3, <3>4 DEF RepairedWhole
    <2> QED
      BY <2>1, <2>2 DEF RepairExact
  <1>13. RepairTypes'
    BY <1>1, <1>3 DEF RepairTypes
  <1>14. DamagedUnsafe'
    BY <1>1, <1>3, DamagedKept
  <1> QED
    BY <1>1, <1>12, <1>13, <1>14 DEF RepairInv, RepairLists, RepairPhases, RepairEnds

\* A killed repair leaves the files and the descriptor as they are.
LEMMA RepairCrashStep ==
    ASSUME RepairInv, RepairCrash
    PROVE  RepairInv'
  <1>1. rep' = NotRunning /\ safe' = safe /\ dir' = dir /\ manifest' = manifest
    BY DEF RepairCrash
  <1>2. RepairTypes /\ DamagedUnsafe /\ RepairExact
    BY DEF RepairInv
  <1>3. RepairTypes'
    BY <1>1, <1>2 DEF RepairTypes
  <1>4. DamagedUnsafe'
    BY <1>1, <1>2, DamagedKept
  <1>5. RepairExact'
    BY <1>1, <1>2 DEF RepairExact, RepairKeeps, RepairedWhole
  <1> QED
    BY <1>1, <1>3, <1>4, <1>5 DEF RepairInv, RepairLists, RepairPhases, RepairEnds

\* RepairDB (RepairSpec), killed at any step and run again: at every moment
\* the directory holds what the logs and the sound tables held, and the
\* descriptor it ends with lists readable tables that hold all of it, under
\* numbers that new writes and files cannot meet.
THEOREM RepairLosesNothing == RepairSpec => []RepairExact
  <1>1. RepairInit => RepairInv
    BY InitRepair
  <1>2. RepairInv /\ [RepairNext]_repairVars => RepairInv'
    <2> SUFFICES ASSUME RepairInv, [RepairNext]_repairVars
                 PROVE  RepairInv'
      OBVIOUS
    <2>1. CASE FindFiles
      BY <2>1, FindFilesStep
    <2>2. ASSUME NEW n \in DOMAIN dir, ConvertLogToTable(n) PROVE RepairInv'
      BY <2>2, ConvertStep
    <2>3. ASSUME NEW n \in DOMAIN dir, ConvertFails(n) PROVE RepairInv'
      BY <2>3, ConvertFailsStep
    <2>4. ASSUME NEW n \in DOMAIN dir, ScanTable(n) PROVE RepairInv'
      BY <2>4, ScanTableStep
    <2>5. CASE ArchiveLog
      BY <2>5, ArchiveLogStep
    <2>6. CASE LogsDone
      BY <2>6, LogsDoneStep
    <2>7. CASE CopyTable
      BY <2>7, CopyTableStep
    <2>8. CASE CopyFails
      BY <2>8, CopyFailsStep
    <2>9. CASE ArchiveSrc
      BY <2>9, ArchiveSrcStep
    <2>10. CASE FinishCopy
      BY <2>10, FinishCopyStep
    <2>11. CASE FinishFails
      BY <2>11, FinishFailsStep
    <2>12. CASE RenameCopy
      BY <2>12, RenameCopyStep
    <2>13. CASE ArchiveManifests
      BY <2>13, ArchiveManifestsStep
    <2>14. CASE InstallDescriptor
      BY <2>14, InstallDescriptorStep
    <2>15. CASE RepairCrash
      BY <2>15, RepairCrashStep
    <2>16. CASE UNCHANGED repairVars
      <3>1. dir' = dir /\ manifest' = manifest /\ rep' = rep /\ safe' = safe
        BY <2>16 DEF repairVars
      <3>2. RepairTypes /\ DamagedUnsafe /\ RepairLists /\ RepairPhases /\ RepairEnds /\ RepairExact
        BY DEF RepairInv
      <3>3. RepairTypes' /\ DamagedUnsafe' /\ RepairEnds'
        BY <3>1, <3>2 DEF RepairTypes, DamagedUnsafe, RepairEnds
      <3>4. RepairLists'
        BY <3>1, <3>2 DEF RepairLists, ListedFiles, IsLogFile, IsTableFile, GoodTable
      <3>5. RepairPhases'
        BY <3>1, <3>2 DEF RepairPhases, IsLogFile, IsTableFile
      <3>6. RepairExact'
        BY <3>1, <3>2 DEF RepairExact, RepairKeeps, RepairedWhole
      <3> QED
        BY <3>3, <3>4, <3>5, <3>6 DEF RepairInv
    <2> QED
      BY <2>1, <2>2, <2>3, <2>4, <2>5, <2>6, <2>7, <2>8, <2>9, <2>10, <2>11, <2>12, <2>13, <2>14, <2>15, <2>16
         DEF RepairNext
  <1>3. RepairInv => RepairExact
    BY DEF RepairInv
  <1> QED
    BY <1>1, <1>2, <1>3, PTL DEF RepairSpec

-----------------------------------------------------------------------------
(* Bindings: the invariant *)

\* The wrappers by kind: whether there is a C++ object inside, and what the
\* struct holds.
BatchOp == [key : ApiKey, val : ApiValue \cup {-1}]
OptionsFields == [create : BOOLEAN, comparator : Nat, filter : Nat, env : {0, -1}, cache : Nat]
OptionsWrapper == [kind : {"options"}, rep : {0}, fields : OptionsFields]
ReadOptionsWrapper == [kind : {"readoptions"}, rep : {0}, fields : [snapshot : Nat]]
DBWrapper == [kind : {"db"}, rep : Nat \ {0}, fields : [options : Nat]]
ObjectWrapper == [kind : {"snapshot", "iterator", "cache"}, rep : Nat \ {0}, fields : {<<>>}]
ComparatorWrapper == [kind : {"comparator"}, rep : {0}, fields : [state : {TRUE}]]
FilterWrapper == [kind : {"filter"}, rep : Nat, fields : [state : BOOLEAN]]
EnvWrapper == [kind : {"env"}, rep : {-1}, fields : [is_default : {TRUE}]]
BatchWrapper == [kind : {"batch"}, rep : {0}, fields : [ops : Seq(BatchOp)]]
Wrapper ==
    OptionsWrapper \cup ReadOptionsWrapper \cup DBWrapper \cup ObjectWrapper
        \cup ComparatorWrapper \cup FilterWrapper \cup EnvWrapper \cup BatchWrapper

WrappersOK(handles, next) ==
    /\ handles \in [DOMAIN handles -> Wrapper]
    /\ \A h \in DOMAIN handles : h \in Nat \ {0} /\ h < next /\ handles[h].rep < next
\* A C++ object is inside one wrapper.
RepsOwned(handles, objs) ==
    /\ objs = {handles[h].rep : h \in DOMAIN handles} \ {0, -1}
    /\ \A g, h \in DOMAIN handles : handles[g].rep > 0 /\ handles[g].rep = handles[h].rep => g = h
\* A pointer of options or read options leads to something of its kind.
IsWrapper(handles, h, kind) == h \in DOMAIN handles /\ handles[h].kind = kind
IsObject(handles, r, kind) == \E h \in DOMAIN handles : handles[h].kind = kind /\ handles[h].rep = r
OptionsPoint(handles, f) ==
    /\ f.comparator # 0 => IsWrapper(handles, f.comparator, "comparator")
    /\ f.filter # 0 => IsWrapper(handles, f.filter, "filter")
    /\ f.cache # 0 => IsObject(handles, f.cache, "cache")
ReadOptionsPoint(handles, f) == f.snapshot # 0 => IsObject(handles, f.snapshot, "snapshot")
PointersOK(handles) ==
    \A h \in DOMAIN handles :
        /\ handles[h].kind = "options" => OptionsPoint(handles, handles[h].fields)
        /\ handles[h].kind = "readoptions" => ReadOptionsPoint(handles, handles[h].fields)
\* The states destroyed are of wrappers that are gone, and no number returns.
DestroyedGone(handles, ran, next) ==
    \A s \in DOMAIN ran : ran[s] = 1 /\ s \notin DOMAIN handles /\ s \in Nat /\ s < next
ObjectsInv(handles, objs, ran, next) ==
    /\ next \in Nat \ {0}
    /\ WrappersOK(handles, next) /\ RepsOwned(handles, objs)
    /\ PointersOK(handles) /\ DestroyedGone(handles, ran, next)

\* The strings alive are the client's, and their numbers are used up.
StringsInv(strings, held, err, next) ==
    /\ held \subseteq Nat \ {0} /\ \A p \in held : p < next
    /\ err \in Nat /\ err < next /\ err \notin held
    /\ strings = held \cup ({err} \ {0})
\* What the last call that reports an error did to *errptr.
Failed(out) == IF out.op = "get" THEN out.status = "error" ELSE ~out.ok
ErrorTold(out, err) == "err" \in DOMAIN out => (Failed(out) <=> err # out.err)
AnswerTold(out) ==
    out.op = "get" /\ out.status # "error" =>
        /\ (out.ptr = 0) = (out.held = -1)
        /\ out.ptr # 0 => out.len = out.held

Shaped(c) ==
    c = [handles |-> c.handles, reps |-> c.reps, strings |-> c.strings, held |-> c.held,
         err |-> c.err, ran |-> c.ran, next |-> c.next, out |-> c.out]
CapiOK(c) ==
    /\ Shaped(c)
    /\ ObjectsInv(c.handles, DOMAIN c.reps, c.ran, c.next)
    /\ StringsInv(c.strings, c.held, c.err, c.next)
    /\ ErrorTold(c.out, c.err) /\ AnswerTold(c.out)
CapiInv == CapiOK(capi)

-----------------------------------------------------------------------------
(* Bindings: wrappers and objects *)

\* What a wrapper of each kind holds.
LEMMA WrapperIs ==
    ASSUME NEW w \in Wrapper
    PROVE  /\ w.rep \in Int /\ (w.rep \in Nat \/ w.rep = -1)
           /\ w.kind = "options" => w \in OptionsWrapper
           /\ w.kind = "readoptions" => w \in ReadOptionsWrapper
           /\ w.kind = "comparator" => w \in ComparatorWrapper
           /\ w.kind = "filter" => w \in FilterWrapper
           /\ w.kind = "env" => w \in EnvWrapper
           /\ w.kind = "batch" => w \in BatchWrapper
           /\ w.kind \in {"snapshot", "iterator", "cache"} => w \in ObjectWrapper
<1>1. w \in OptionsWrapper => w.kind = "options" /\ w.rep = 0
  BY DEF OptionsWrapper
<1>2. w \in ReadOptionsWrapper => w.kind = "readoptions" /\ w.rep = 0
  BY DEF ReadOptionsWrapper
<1>3. w \in DBWrapper => w.kind = "db" /\ w.rep \in Nat
  BY DEF DBWrapper
<1>4. w \in ObjectWrapper => w.kind \in {"snapshot", "iterator", "cache"} /\ w.rep \in Nat
  BY DEF ObjectWrapper
<1>5. w \in ComparatorWrapper => w.kind = "comparator" /\ w.rep = 0
  BY DEF ComparatorWrapper
<1>6. w \in FilterWrapper => w.kind = "filter" /\ w.rep \in Nat
  BY DEF FilterWrapper
<1>7. w \in EnvWrapper => w.kind = "env" /\ w.rep = -1
  BY DEF EnvWrapper
<1>8. w \in BatchWrapper => w.kind = "batch" /\ w.rep = 0
  BY DEF BatchWrapper
<1> QED
  BY <1>1, <1>2, <1>3, <1>4, <1>5, <1>6, <1>7, <1>8 DEF Wrapper

\* Numbers that are used up for other things.
LEMMA ObjectsLater ==
    ASSUME NEW handles, NEW objs, NEW ran, NEW next, NEW later,
           ObjectsInv(handles, objs, ran, next), later \in Nat, next <= later
    PROVE  ObjectsInv(handles, objs, ran, later)
<1>1. next \in Nat \ {0} /\ later \in Nat \ {0}
  BY DEF ObjectsInv
<1>2. WrappersOK(handles, later)
  <2>1. WrappersOK(handles, next)
    BY DEF ObjectsInv
  <2>2. \A h \in DOMAIN handles : h \in Nat /\ h < next /\ handles[h].rep \in Int /\ handles[h].rep < next
    BY <2>1, WrapperIs DEF WrappersOK
  <2> QED
    BY <1>1, <2>1, <2>2 DEF WrappersOK
<1>3. DestroyedGone(handles, ran, later)
  BY <1>1 DEF ObjectsInv, DestroyedGone
<1> QED
  BY <1>1, <1>2, <1>3 DEF ObjectsInv

\* What options point to stays when wrappers are added.
LEMMA PointersKept ==
    ASSUME NEW handles, NEW more,
           DOMAIN handles \subseteq DOMAIN more, \A h \in DOMAIN handles : more[h] = handles[h]
    PROVE  /\ \A f : OptionsPoint(handles, f) => OptionsPoint(more, f)
           /\ \A f : ReadOptionsPoint(handles, f) => ReadOptionsPoint(more, f)
<1>1. \A r, kind : IsObject(handles, r, kind) => IsObject(more, r, kind)
  BY DEF IsObject
<1>2. \A h, kind : IsWrapper(handles, h, kind) => IsWrapper(more, h, kind)
  BY DEF IsWrapper
<1> QED
  BY <1>1, <1>2 DEF OptionsPoint, ReadOptionsPoint

\* A new wrapper, with no object of its own or with a new one.
LEMMA NewWrapper ==
    ASSUME NEW handles, NEW objs, NEW ran, NEW next, ObjectsInv(handles, objs, ran, next),
           NEW w \in Wrapper,
           w.kind = "options" => w.fields = NewOptions,
           w.kind = "readoptions" => w.fields = [snapshot |-> 0],
           NEW more, NEW later,
           \/ w.rep \in {0, -1} /\ more = objs /\ later = next + 1
           \/ w.rep = next + 1 /\ more = objs \cup {next + 1} /\ later = next + 2
    PROVE  ObjectsInv(Put1(handles, next, w), more, ran, later)
<1> DEFINE new == Put1(handles, next, w)
<1>1. next \in Nat \ {0} /\ later \in Nat \ {0} /\ next < later /\ w.rep < later /\ w.rep \in Int
  BY WrapperIs DEF ObjectsInv
<1>2. DOMAIN new = DOMAIN handles \cup {next} /\ new[next] = w /\ \A h \in DOMAIN handles \ {next} : new[h] = handles[h]
  BY DEF Put1
<1>3. \A h \in DOMAIN handles : h \in Nat \ {0} /\ h < next /\ handles[h] \in Wrapper /\ handles[h].rep < next
  BY DEF ObjectsInv, WrappersOK
<1>4. next \notin DOMAIN handles
  BY <1>1, <1>3
<1>5. \A h \in DOMAIN handles : new[h] = handles[h]
  BY <1>2, <1>4
<1>6. \A h \in DOMAIN handles : handles[h].rep \in Int /\ handles[h].rep < next
  BY <1>3, WrapperIs
<1>7. WrappersOK(new, later)
  <2>1. new \in [DOMAIN new -> Wrapper]
    <3>1. new = [i \in DOMAIN handles \cup {next} |-> IF i = next THEN w ELSE handles[i]]
      BY DEF Put1
    <3> QED
      BY <3>1, <1>3
  <2>2. \A h \in DOMAIN new : h \in Nat \ {0} /\ h < later /\ new[h].rep < later
    <3> SUFFICES ASSUME NEW h \in DOMAIN new PROVE h \in Nat \ {0} /\ h < later /\ new[h].rep < later
      OBVIOUS
    <3>1. CASE h = next
      BY <3>1, <1>1, <1>2
    <3>2. CASE h \in DOMAIN handles
      <4>1. h \in Nat \ {0} /\ h < next /\ new[h].rep \in Int /\ new[h].rep < next
        BY <3>2, <1>3, <1>5, <1>6
      <4> HIDE DEF new
      <4> QED
        BY <4>1, <1>1
    <3> QED
      BY <3>1, <3>2, <1>2
  <2> QED
    BY <2>1, <2>2 DEF WrappersOK
<1>8. RepsOwned(new, more)
  <2> HIDE DEF new
  <2>1. {new[h].rep : h \in DOMAIN new} = {handles[h].rep : h \in DOMAIN handles} \cup {w.rep}
    BY <1>2, <1>5
  <2>2. objs = {handles[h].rep : h \in DOMAIN handles} \ {0, -1}
    BY DEF ObjectsInv, RepsOwned
  <2>3. more = {new[h].rep : h \in DOMAIN new} \ {0, -1}
    <3> DEFINE R == {handles[h].rep : h \in DOMAIN handles}
    <3>1. {new[h].rep : h \in DOMAIN new} = R \cup {w.rep} /\ objs = R \ {0, -1}
      BY <2>1, <2>2
    <3>2. next + 1 \notin {0, -1}
      BY <1>1
    <3> HIDE DEF R
    <3>3. CASE w.rep \in {0, -1} /\ more = objs
      BY <3>1, <3>3
    <3>4. CASE w.rep = next + 1 /\ more = objs \cup {next + 1}
      BY <3>1, <3>2, <3>4
    <3> QED
      BY <3>3, <3>4
  <2>4. ASSUME NEW g \in DOMAIN new, NEW h \in DOMAIN new, new[g].rep > 0, new[g].rep = new[h].rep
        PROVE  g = h
    <3>1. CASE g \in DOMAIN handles /\ h \in DOMAIN handles
      BY <3>1, <2>4, <1>5 DEF ObjectsInv, RepsOwned
    <3>2. CASE g = next /\ h \in DOMAIN handles
      BY <3>2, <2>4, <1>1, <1>2, <1>5, <1>6
    <3>3. CASE h = next /\ g \in DOMAIN handles
      BY <3>3, <2>4, <1>1, <1>2, <1>5, <1>6
    <3> QED
      BY <3>1, <3>2, <3>3, <1>2
  <2> QED
    BY <2>3, <2>4 DEF RepsOwned
<1>9. PointersOK(new)
  <2> HIDE DEF new
  <2>1. /\ \A f : OptionsPoint(handles, f) => OptionsPoint(new, f)
        /\ \A f : ReadOptionsPoint(handles, f) => ReadOptionsPoint(new, f)
    BY <1>2, <1>5, PointersKept
  <2>2. /\ w.kind = "options" => OptionsPoint(new, w.fields)
        /\ w.kind = "readoptions" => ReadOptionsPoint(new, w.fields)
    BY DEF OptionsPoint, ReadOptionsPoint, NewOptions
  <2>3. PointersOK(handles)
    BY DEF ObjectsInv
  <2> QED
    BY <1>2, <1>5, <2>1, <2>2, <2>3 DEF PointersOK
<1>10. DestroyedGone(new, ran, later)
  <2> HIDE DEF new
  <2>1. DestroyedGone(handles, ran, next)
    BY DEF ObjectsInv
  <2> QED
    BY <1>1, <1>2, <2>1 DEF DestroyedGone
<1> QED
  BY <1>1, <1>7, <1>8, <1>9, <1>10 DEF ObjectsInv

\* A wrapper's fields are set, to point to what is there.
LEMMA ChangedWrapper ==
    ASSUME NEW handles, NEW objs, NEW ran, NEW next, ObjectsInv(handles, objs, ran, next),
           NEW x \in DOMAIN handles, NEW w \in Wrapper, w.kind = handles[x].kind, w.rep = handles[x].rep,
           w.kind = "options" => OptionsPoint(handles, w.fields),
           w.kind = "readoptions" => ReadOptionsPoint(handles, w.fields)
    PROVE  ObjectsInv([handles EXCEPT ![x] = w], objs, ran, next)
<1> DEFINE new == [handles EXCEPT ![x] = w]
<1>1. DOMAIN new = DOMAIN handles /\ new[x] = w /\ \A h \in DOMAIN handles \ {x} : new[h] = handles[h]
  OBVIOUS
<1>2. \A h \in DOMAIN handles : new[h].kind = handles[h].kind /\ new[h].rep = handles[h].rep
  BY <1>1
<1>3. WrappersOK(new, next)
  <2>1. new \in [DOMAIN new -> Wrapper]
    BY DEF ObjectsInv, WrappersOK
  <2> HIDE DEF new
  <2> QED
    BY <1>1, <1>2, <2>1 DEF ObjectsInv, WrappersOK
<1> HIDE DEF new
<1>4. RepsOwned(new, objs)
  BY <1>1, <1>2 DEF ObjectsInv, RepsOwned
<1>5. PointersOK(new)
  <2>1. \A r, kind : IsObject(handles, r, kind) => IsObject(new, r, kind)
    BY <1>1, <1>2 DEF IsObject
  <2>2. \A h, kind : IsWrapper(handles, h, kind) => IsWrapper(new, h, kind)
    BY <1>1, <1>2 DEF IsWrapper
  <2>3. \A f : OptionsPoint(handles, f) => OptionsPoint(new, f)
    BY <2>1, <2>2 DEF OptionsPoint
  <2>4. \A f : ReadOptionsPoint(handles, f) => ReadOptionsPoint(new, f)
    BY <2>1 DEF ReadOptionsPoint
  <2>5. PointersOK(handles)
    BY DEF ObjectsInv
  <2> QED
    BY <1>1, <2>3, <2>4, <2>5 DEF PointersOK
<1>6. DestroyedGone(new, ran, next)
  BY <1>1 DEF ObjectsInv, DestroyedGone
<1>7. next \in Nat \ {0}
  BY DEF ObjectsInv
<1>8. ObjectsInv(new, objs, ran, next)
  BY <1>3, <1>4, <1>5, <1>6, <1>7 DEF ObjectsInv
<1> QED
  BY <1>8 DEF new

\* Whether nothing points to a wrapper or its object.
Unused(handles, x) ==
    \A h \in DOMAIN handles :
        /\ handles[h].kind = "options" =>
             /\ handles[x].kind = "comparator" => handles[h].fields.comparator # x
             /\ handles[x].kind = "filter" => handles[h].fields.filter # x
             /\ handles[x].kind = "cache" => handles[h].fields.cache # handles[x].rep
        /\ handles[h].kind = "readoptions" /\ handles[x].kind = "snapshot" =>
             handles[h].fields.snapshot # handles[x].rep
\* A wrapper nobody points to is destroyed with its object.
LEMMA DestroyedWrapper ==
    ASSUME NEW handles, NEW objs, NEW ran, NEW next, ObjectsInv(handles, objs, ran, next),
           NEW x \in DOMAIN handles, Unused(handles, x)
    PROVE  ObjectsInv(Removed(handles, x), objs \ {handles[x].rep}, ran, next)
<1> DEFINE new == Removed(handles, x)
<1>1. DOMAIN new = DOMAIN handles \ {x} /\ \A h \in DOMAIN new : new[h] = handles[h]
  BY DEF Removed, Restrict
<1>2. WrappersOK(handles, next) /\ RepsOwned(handles, objs) /\ PointersOK(handles) /\ DestroyedGone(handles, ran, next)
      /\ next \in Nat \ {0}
  BY DEF ObjectsInv
<1>3. WrappersOK(new, next)
  <2>1. new \in [DOMAIN new -> Wrapper]
    BY <1>2 DEF WrappersOK, Removed, Restrict
  <2> HIDE DEF new
  <2> QED
    BY <1>1, <1>2, <2>1 DEF WrappersOK
<1> HIDE DEF new
<1>4. RepsOwned(new, objs \ {handles[x].rep})
  <2>1. \A h \in DOMAIN handles : handles[h].rep \in Nat \/ handles[h].rep = -1
    BY <1>2, WrapperIs DEF WrappersOK
  <2>2. \A r : r \in objs <=> (\E h \in DOMAIN handles : r = handles[h].rep) /\ r \notin {0, -1}
    BY <1>2 DEF RepsOwned
  <2>3. \A h \in DOMAIN new : handles[h].rep \notin {0, -1} => handles[h].rep # handles[x].rep
    <3>1. ASSUME NEW h \in DOMAIN new, handles[h].rep \notin {0, -1}, handles[h].rep = handles[x].rep PROVE FALSE
      <4>1. h \in DOMAIN handles /\ h # x /\ handles[h].rep > 0
        BY <1>1, <2>1, <3>1
      <4> QED
        BY <4>1, <3>1, <1>2 DEF RepsOwned
    <3> QED
      BY <3>1
  <2>4. objs \ {handles[x].rep} = {new[h].rep : h \in DOMAIN new} \ {0, -1}
    <3>1. ASSUME NEW r \in objs, r # handles[x].rep PROVE r \in {new[h].rep : h \in DOMAIN new} \ {0, -1}
      BY <1>1, <2>2, <3>1
    <3>2. ASSUME NEW h \in DOMAIN new, new[h].rep \notin {0, -1} PROVE new[h].rep \in objs /\ new[h].rep # handles[x].rep
      BY <1>1, <2>2, <2>3, <3>2
    <3> QED
      BY <3>1, <3>2
  <2>5. \A g, h \in DOMAIN new : new[g].rep > 0 /\ new[g].rep = new[h].rep => g = h
    BY <1>1, <1>2 DEF RepsOwned
  <2> QED
    BY <2>4, <2>5 DEF RepsOwned
<1>5. PointersOK(new)
  <2> SUFFICES ASSUME NEW h \in DOMAIN new
               PROVE  /\ new[h].kind = "options" => OptionsPoint(new, new[h].fields)
                      /\ new[h].kind = "readoptions" => ReadOptionsPoint(new, new[h].fields)
    BY DEF PointersOK
  <2>1. h \in DOMAIN handles /\ new[h] = handles[h]
    BY <1>1
  <2>2. ASSUME NEW r, NEW kind, IsObject(handles, r, kind), handles[x].kind = kind => r # handles[x].rep
        PROVE  IsObject(new, r, kind)
    BY <2>2, <1>1 DEF IsObject
  <2>3. ASSUME NEW y, NEW kind, IsWrapper(handles, y, kind), handles[x].kind = kind => y # x
        PROVE  IsWrapper(new, y, kind)
    BY <2>3, <1>1 DEF IsWrapper
  <2>4. CASE handles[h].kind = "options"
    <3>1. OptionsPoint(handles, handles[h].fields)
      BY <2>1, <2>4, <1>2 DEF PointersOK
    <3>2. /\ handles[x].kind = "comparator" => handles[h].fields.comparator # x
          /\ handles[x].kind = "filter" => handles[h].fields.filter # x
          /\ handles[x].kind = "cache" => handles[h].fields.cache # handles[x].rep
      BY <2>1, <2>4 DEF Unused
    <3>3. OptionsPoint(new, handles[h].fields)
      BY <3>1, <3>2, <2>2, <2>3 DEF OptionsPoint
    <3> QED
      BY <3>3, <2>1, <2>4
  <2>5. CASE handles[h].kind = "readoptions"
    <3>1. ReadOptionsPoint(handles, handles[h].fields)
      BY <2>1, <2>5, <1>2 DEF PointersOK
    <3>2. handles[x].kind = "snapshot" => handles[h].fields.snapshot # handles[x].rep
      BY <2>1, <2>5 DEF Unused
    <3>3. ReadOptionsPoint(new, handles[h].fields)
      BY <3>1, <3>2, <2>2 DEF ReadOptionsPoint
    <3> QED
      BY <3>3, <2>1, <2>5
  <2> QED
    BY <2>1, <2>4, <2>5
<1>6. DestroyedGone(new, ran, next)
  BY <1>1, <1>2 DEF DestroyedGone
<1>7. ObjectsInv(new, objs \ {handles[x].rep}, ran, next)
  BY <1>2, <1>3, <1>4, <1>5, <1>6 DEF ObjectsInv
<1> QED
  BY <1>7 DEF new

\* The user's destructor runs for a wrapper that is gone.
LEMMA DestructorOnce ==
    ASSUME NEW handles, NEW objs, NEW ran, NEW next, ObjectsInv(handles, objs, ran, next),
           NEW s \in Nat, s < next, s \notin DOMAIN handles, s \notin DOMAIN ran
    PROVE  ObjectsInv(handles, objs, Put1(ran, s, 1), next)
<1>1. DOMAIN Put1(ran, s, 1) = DOMAIN ran \cup {s} /\ Put1(ran, s, 1)[s] = 1
      /\ \A y \in DOMAIN ran : Put1(ran, s, 1)[y] = ran[y]
  BY DEF Put1
<1>2. DestroyedGone(handles, Put1(ran, s, 1), next)
  BY <1>1 DEF ObjectsInv, DestroyedGone
<1> QED
  BY <1>2 DEF ObjectsInv

-----------------------------------------------------------------------------
(* Bindings: strings *)

\* Numbers that are used up for other things.
LEMMA StringsLater ==
    ASSUME NEW strings, NEW held, NEW err, NEW next, NEW later, StringsInv(strings, held, err, next),
           next \in Nat \ {0}, later \in Nat, next <= later
    PROVE  StringsInv(strings, held, err, later)
<1>1. held \subseteq Nat /\ (\A p \in held : p < next) /\ err \in Nat /\ err < next
  BY DEF StringsInv
<1>2. (\A p \in held : p < later) /\ err < later
  BY <1>1
<1> QED
  BY <1>2 DEF StringsInv

\* A new message in the place of the old one.
LEMMA NewError ==
    ASSUME NEW strings, NEW held, NEW err, NEW next, StringsInv(strings, held, err, next), next \in Nat \ {0}
    PROVE  StringsInv((strings \ {err}) \cup {next}, held, next, next + 1)
<1>1. held \subseteq Nat \ {0} /\ (\A p \in held : p < next) /\ err \notin held /\ strings = held \cup ({err} \ {0})
  BY DEF StringsInv
<1>2. next \notin held /\ next # 0 /\ next < next + 1 /\ \A p \in held : p < next + 1
  BY <1>1
<1>3. (strings \ {err}) \cup {next} = held \cup ({next} \ {0})
  BY <1>1, <1>2
<1> QED
  BY <1>1, <1>2, <1>3 DEF StringsInv
\* A result the client keeps.
LEMMA NewResult ==
    ASSUME NEW strings, NEW held, NEW err, NEW next, StringsInv(strings, held, err, next), next \in Nat \ {0}
    PROVE  StringsInv(strings \cup {next}, held \cup {next}, err, next + 1)
<1>1. held \subseteq Nat \ {0} /\ (\A p \in held : p < next) /\ err \notin held /\ strings = held \cup ({err} \ {0})
      /\ err \in Nat /\ err < next
  BY DEF StringsInv
<1>2. err # next /\ err < next + 1 /\ next < next + 1 /\ \A p \in held : p < next + 1
  BY <1>1
<1>3. strings \cup {next} = (held \cup {next}) \cup ({err} \ {0})
  BY <1>1
<1>4. held \cup {next} \subseteq Nat \ {0} /\ err \notin held \cup {next} /\ \A p \in held \cup {next} : p < next + 1
  BY <1>1, <1>2
<1> QED
  BY <1>1, <1>2, <1>3, <1>4 DEF StringsInv
\* A string the client gives back.
LEMMA FreedString ==
    ASSUME NEW strings, NEW held, NEW err, NEW next, StringsInv(strings, held, err, next), next \in Nat \ {0},
           NEW p
    PROVE  StringsInv(strings \ {p}, held \ {p}, IF err = p THEN 0 ELSE err, next)
<1>1. held \subseteq Nat \ {0} /\ (\A q \in held : q < next) /\ err \notin held /\ strings = held \cup ({err} \ {0})
      /\ err \in Nat /\ err < next
  BY DEF StringsInv
<1>2. CASE err = p
  <2>1. strings \ {p} = (held \ {p}) \cup ({0} \ {0})
    BY <1>1, <1>2
  <2> QED
    BY <1>1, <1>2, <2>1 DEF StringsInv
<1>3. CASE err # p
  <2>1. strings \ {p} = (held \ {p}) \cup ({err} \ {0})
    BY <1>1, <1>3
  <2> QED
    BY <1>1, <1>3, <2>1 DEF StringsInv
<1> QED
  BY <1>2, <1>3

-----------------------------------------------------------------------------
(* Bindings: the state as a whole *)

\* What a call tells.
LEMMA ToldOK ==
    ASSUME NEW c, CapiOK(c), NEW o, ErrorTold(o, c.err), AnswerTold(o), NEW d, d = [c EXCEPT !.out = o]
    PROVE  CapiOK(d) /\ d.next = c.next /\ d.handles = c.handles /\ d.err = c.err /\ d.out = o
<1>1. Shaped(c)
  BY DEF CapiOK
<1>2. d = [handles |-> c.handles, reps |-> c.reps, strings |-> c.strings, held |-> c.held,
           err |-> c.err, ran |-> c.ran, next |-> c.next, out |-> o]
  BY <1>1 DEF Shaped
<1>3. /\ d.handles = c.handles /\ d.reps = c.reps /\ d.strings = c.strings /\ d.held = c.held
      /\ d.err = c.err /\ d.ran = c.ran /\ d.next = c.next /\ d.out = o
  BY <1>2
<1>4. Shaped(d)
  BY <1>2, <1>3 DEF Shaped
<1> QED
  BY <1>3, <1>4 DEF CapiOK

\* A wrapper with an object of its own.
LEMMA WithRepOK ==
    ASSUME NEW c, CapiOK(c), NEW kind, NEW fields, NEW obj,
           kind \in {"db", "snapshot", "iterator", "cache", "filter"}, Handle(kind, c.next + 1, fields) \in Wrapper,
           NEW d, d = WithRep(c, kind, fields, obj)
    PROVE  CapiOK(d) /\ d.err = c.err
<1> DEFINE w == Handle(kind, c.next + 1, fields)
<1>1. Shaped(c) /\ c.next \in Nat \ {0}
  BY DEF CapiOK, ObjectsInv
<1>2. d = [handles |-> Put1(c.handles, c.next, w), reps |-> Put1(c.reps, c.next + 1, obj), strings |-> c.strings,
           held |-> c.held, err |-> c.err, ran |-> c.ran, next |-> c.next + 2, out |-> c.out]
  BY <1>1 DEF Shaped, WithRep
<1>3. w.kind = kind /\ w.rep = c.next + 1 /\ w \in Wrapper
  BY DEF Handle
<1> HIDE DEF w
<1>4. /\ d.handles = Put1(c.handles, c.next, w) /\ d.reps = Put1(c.reps, c.next + 1, obj) /\ d.strings = c.strings
      /\ d.held = c.held /\ d.err = c.err /\ d.ran = c.ran /\ d.next = c.next + 2 /\ d.out = c.out
  BY <1>2
<1>5. Shaped(d)
  BY <1>2, <1>4 DEF Shaped
<1>6. DOMAIN d.reps = DOMAIN c.reps \cup {c.next + 1}
  BY <1>4 DEF Put1
<1>7. ObjectsInv(d.handles, DOMAIN d.reps, d.ran, d.next)
  <2>1. ObjectsInv(c.handles, DOMAIN c.reps, c.ran, c.next)
    BY DEF CapiOK
  <2>2. w.kind # "options" /\ w.kind # "readoptions"
    BY <1>3
  <2>3. ObjectsInv(Put1(c.handles, c.next, w), DOMAIN c.reps \cup {c.next + 1}, c.ran, c.next + 2)
    BY <2>1, <2>2, <1>3, NewWrapper
  <2> QED
    BY <2>3, <1>4, <1>6
<1>8. StringsInv(d.strings, d.held, d.err, d.next)
  <2>1. StringsInv(c.strings, c.held, c.err, c.next) /\ c.next + 2 \in Nat /\ c.next <= c.next + 2
    BY <1>1 DEF CapiOK
  <2>2. StringsInv(c.strings, c.held, c.err, c.next + 2)
    BY <2>1, <1>1, StringsLater
  <2> QED
    BY <2>2, <1>4
<1> QED
  BY <1>4, <1>5, <1>7, <1>8 DEF CapiOK
\* A wrapper without an object of its own.
LEMMA PlainOK ==
    ASSUME NEW c, CapiOK(c), NEW w \in Wrapper, w.rep \in {0, -1},
           w.kind = "options" => w.fields = NewOptions, w.kind = "readoptions" => w.fields = [snapshot |-> 0],
           NEW d, d = [c EXCEPT !.handles = Put1(@, c.next, w), !.next = @ + 1]
    PROVE  CapiOK(d) /\ d.err = c.err
<1>1. Shaped(c) /\ c.next \in Nat \ {0}
  BY DEF CapiOK, ObjectsInv
<1>2. d = [handles |-> Put1(c.handles, c.next, w), reps |-> c.reps, strings |-> c.strings,
           held |-> c.held, err |-> c.err, ran |-> c.ran, next |-> c.next + 1, out |-> c.out]
  BY <1>1 DEF Shaped
<1>4. /\ d.handles = Put1(c.handles, c.next, w) /\ d.reps = c.reps /\ d.strings = c.strings
      /\ d.held = c.held /\ d.err = c.err /\ d.ran = c.ran /\ d.next = c.next + 1 /\ d.out = c.out
  BY <1>2
<1>5. Shaped(d)
  BY <1>2, <1>4 DEF Shaped
<1>7. ObjectsInv(d.handles, DOMAIN d.reps, d.ran, d.next)
  <2>1. ObjectsInv(c.handles, DOMAIN c.reps, c.ran, c.next)
    BY DEF CapiOK
  <2>3. ObjectsInv(Put1(c.handles, c.next, w), DOMAIN c.reps, c.ran, c.next + 1)
    BY <2>1, NewWrapper
  <2> QED
    BY <2>3, <1>4
<1>8. StringsInv(d.strings, d.held, d.err, d.next)
  <2>1. StringsInv(c.strings, c.held, c.err, c.next) /\ c.next + 1 \in Nat /\ c.next <= c.next + 1
    BY <1>1 DEF CapiOK
  <2>2. StringsInv(c.strings, c.held, c.err, c.next + 1)
    BY <2>1, <1>1, StringsLater
  <2> QED
    BY <2>2, <1>4
<1> QED
  BY <1>4, <1>5, <1>7, <1>8 DEF CapiOK

\* A wrapper nobody points to is deleted with its object.
LEMMA DeletedOK ==
    ASSUME NEW c, CapiOK(c), NEW x \in DOMAIN c.handles, Unused(c.handles, x),
           NEW d, d = Deleted(c, x)
    PROVE  CapiOK(d) /\ d.handles = Removed(c.handles, x) /\ d.ran = c.ran /\ d.next = c.next
<1> DEFINE o == [op |-> "delete"]
<1>1. Shaped(c)
  BY DEF CapiOK
<1>2. d = [handles |-> Removed(c.handles, x), reps |-> Removed(c.reps, c.handles[x].rep), strings |-> c.strings,
           held |-> c.held, err |-> c.err, ran |-> c.ran, next |-> c.next, out |-> o]
  BY <1>1 DEF Shaped, Deleted
<1>3. ErrorTold(o, c.err) /\ AnswerTold(o)
  BY DEF ErrorTold, AnswerTold
<1> HIDE DEF o
<1>4. /\ d.handles = Removed(c.handles, x) /\ d.reps = Removed(c.reps, c.handles[x].rep) /\ d.strings = c.strings
      /\ d.held = c.held /\ d.err = c.err /\ d.ran = c.ran /\ d.next = c.next /\ d.out = o
  BY <1>2
<1>5. Shaped(d)
  BY <1>2, <1>4 DEF Shaped
<1>6. DOMAIN d.reps = DOMAIN c.reps \ {c.handles[x].rep}
  BY <1>4 DEF Removed, Restrict
<1>7. ObjectsInv(d.handles, DOMAIN d.reps, d.ran, d.next)
  <2>1. ObjectsInv(c.handles, DOMAIN c.reps, c.ran, c.next)
    BY DEF CapiOK
  <2>3. ObjectsInv(Removed(c.handles, x), DOMAIN c.reps \ {c.handles[x].rep}, c.ran, c.next)
    BY <2>1, DestroyedWrapper
  <2> QED
    BY <2>3, <1>4, <1>6
<1> QED
  BY <1>3, <1>4, <1>5, <1>7 DEF CapiOK
\* The default environment stays when its wrapper goes.
LEMMA DefaultEnvOK ==
    ASSUME NEW c, CapiOK(c), NEW x \in DOMAIN c.handles, Unused(c.handles, x), c.handles[x].rep = -1,
           NEW d, d = [c EXCEPT !.handles = Removed(@, x)]
    PROVE  CapiOK(d)
<1>1. Shaped(c)
  BY DEF CapiOK
<1>2. d = [handles |-> Removed(c.handles, x), reps |-> c.reps, strings |-> c.strings,
           held |-> c.held, err |-> c.err, ran |-> c.ran, next |-> c.next, out |-> c.out]
  BY <1>1 DEF Shaped
<1>4. /\ d.handles = Removed(c.handles, x) /\ d.reps = c.reps /\ d.strings = c.strings
      /\ d.held = c.held /\ d.err = c.err /\ d.ran = c.ran /\ d.next = c.next /\ d.out = c.out
  BY <1>2
<1>5. Shaped(d)
  BY <1>2, <1>4 DEF Shaped
<1>7. ObjectsInv(d.handles, DOMAIN d.reps, d.ran, d.next)
  <2>1. ObjectsInv(c.handles, DOMAIN c.reps, c.ran, c.next)
    BY DEF CapiOK
  <2>2. DOMAIN c.reps \ {c.handles[x].rep} = DOMAIN c.reps
    BY <2>1 DEF ObjectsInv, RepsOwned
  <2>3. ObjectsInv(Removed(c.handles, x), DOMAIN c.reps, c.ran, c.next)
    BY <2>1, <2>2, DestroyedWrapper
  <2> QED
    BY <2>3, <1>4
<1> QED
  BY <1>4, <1>5, <1>7 DEF CapiOK

\* The user's destructor, for a wrapper that is gone.
LEMMA DestructorRunOK ==
    ASSUME NEW c, CapiOK(c), NEW x \in DOMAIN c.handles, Unused(c.handles, x),
           NEW d, d = DestructorRun(Deleted(c, x), x)
    PROVE  CapiOK(d)
<1> DEFINE e == Deleted(c, x)
<1>1. CapiOK(e) /\ e.handles = Removed(c.handles, x) /\ e.ran = c.ran /\ e.next = c.next
  BY DeletedOK
<1>2. x \in Nat /\ x < e.next /\ x \notin DOMAIN e.handles /\ x \notin DOMAIN e.ran
  <2>1. x \in Nat /\ x < c.next /\ x \notin DOMAIN c.ran
    BY DEF CapiOK, ObjectsInv, WrappersOK, DestroyedGone
  <2> QED
    BY <2>1, <1>1 DEF Removed, Restrict
<1> HIDE DEF e
<1>3. Shaped(e)
  BY <1>1 DEF CapiOK
<1>4. d = [handles |-> e.handles, reps |-> e.reps, strings |-> e.strings, held |-> e.held,
           err |-> e.err, ran |-> Put1(e.ran, x, 1), next |-> e.next, out |-> e.out]
  <2>1. d = [e EXCEPT !.ran = Put1(@, x, IF x \in DOMAIN @ THEN @[x] + 1 ELSE 1)]
    BY DEF DestructorRun, e
  <2> QED
    BY <2>1, <1>2, <1>3 DEF Shaped
<1>5. /\ d.handles = e.handles /\ d.reps = e.reps /\ d.strings = e.strings /\ d.held = e.held
      /\ d.err = e.err /\ d.ran = Put1(e.ran, x, 1) /\ d.next = e.next /\ d.out = e.out
  BY <1>4
<1>6. Shaped(d)
  BY <1>4, <1>5 DEF Shaped
<1>7. ObjectsInv(d.handles, DOMAIN d.reps, d.ran, d.next)
  <2>1. ObjectsInv(e.handles, DOMAIN e.reps, e.ran, e.next)
    BY <1>1 DEF CapiOK
  <2>2. ObjectsInv(e.handles, DOMAIN e.reps, Put1(e.ran, x, 1), e.next)
    BY <2>1, <1>2, DestructorOnce
  <2> QED
    BY <2>2, <1>5
<1> QED
  BY <1>1, <1>5, <1>6, <1>7 DEF CapiOK

\* A wrapper's fields are set.
LEMMA ChangedOK ==
    ASSUME NEW c, CapiOK(c), NEW x \in DOMAIN c.handles, NEW w \in Wrapper,
           w.kind = c.handles[x].kind, w.rep = c.handles[x].rep,
           w.kind = "options" => OptionsPoint(c.handles, w.fields),
           w.kind = "readoptions" => ReadOptionsPoint(c.handles, w.fields),
           NEW d, d = [c EXCEPT !.handles[x] = w]
    PROVE  CapiOK(d)
<1>1. Shaped(c)
  BY DEF CapiOK
<1>2. d = [handles |-> [c.handles EXCEPT ![x] = w], reps |-> c.reps, strings |-> c.strings,
           held |-> c.held, err |-> c.err, ran |-> c.ran, next |-> c.next, out |-> c.out]
  BY <1>1 DEF Shaped
<1>4. /\ d.handles = [c.handles EXCEPT ![x] = w] /\ d.reps = c.reps /\ d.strings = c.strings
      /\ d.held = c.held /\ d.err = c.err /\ d.ran = c.ran /\ d.next = c.next /\ d.out = c.out
  BY <1>2
<1>5. Shaped(d)
  BY <1>2, <1>4 DEF Shaped
<1>7. ObjectsInv(d.handles, DOMAIN d.reps, d.ran, d.next)
  <2>1. ObjectsInv(c.handles, DOMAIN c.reps, c.ran, c.next)
    BY DEF CapiOK
  <2>3. ObjectsInv([c.handles EXCEPT ![x] = w], DOMAIN c.reps, c.ran, c.next)
    BY <2>1, ChangedWrapper
  <2> QED
    BY <2>3, <1>4
<1> QED
  BY <1>4, <1>5, <1>7 DEF CapiOK

\* An object changes: an iterator moves.
LEMMA MovedOK ==
    ASSUME NEW c, CapiOK(c), NEW r, NEW obj, NEW o, ErrorTold(o, c.err), AnswerTold(o),
           NEW d, d = [c EXCEPT !.reps[r] = obj, !.out = o]
    PROVE  CapiOK(d)
<1>1. Shaped(c)
  BY DEF CapiOK
<1>2. d = [handles |-> c.handles, reps |-> [c.reps EXCEPT ![r] = obj], strings |-> c.strings,
           held |-> c.held, err |-> c.err, ran |-> c.ran, next |-> c.next, out |-> o]
  BY <1>1 DEF Shaped
<1>3. /\ d.handles = c.handles /\ d.reps = [c.reps EXCEPT ![r] = obj] /\ d.strings = c.strings /\ d.held = c.held
      /\ d.err = c.err /\ d.ran = c.ran /\ d.next = c.next /\ d.out = o
  BY <1>2
<1>4. Shaped(d)
  BY <1>2, <1>3 DEF Shaped
<1>5. DOMAIN d.reps = DOMAIN c.reps
  BY <1>3
<1> QED
  BY <1>3, <1>4, <1>5 DEF CapiOK

\* A call that fails takes the old message back and leaves a new one.
LEMMA FailedOK ==
    ASSUME NEW c, CapiOK(c), NEW o, ErrorTold(o, c.next), AnswerTold(o),
           NEW d, d = SaveError([c EXCEPT !.out = o], FALSE)
    PROVE  CapiOK(d)
<1>1. Shaped(c) /\ c.next \in Nat \ {0}
  BY DEF CapiOK, ObjectsInv
<1>2. d = [handles |-> c.handles, reps |-> c.reps, strings |-> (c.strings \ {c.err}) \cup {c.next}, held |-> c.held,
           err |-> c.next, ran |-> c.ran, next |-> c.next + 1, out |-> o]
  <2> DEFINE t == [c EXCEPT !.out = o]
  <2>1. t = [handles |-> c.handles, reps |-> c.reps, strings |-> c.strings, held |-> c.held,
             err |-> c.err, ran |-> c.ran, next |-> c.next, out |-> o]
    BY <1>1 DEF Shaped
  <2>2. d = SaveError(t, FALSE)
    OBVIOUS
  <2> HIDE DEF t
  <2>3. d = [t EXCEPT !.strings = (@ \ {t.err}) \cup {t.next}, !.err = t.next, !.next = @ + 1]
    BY <2>2 DEF SaveError
  <2> QED
    BY <2>1, <2>3
<1>3. /\ d.handles = c.handles /\ d.reps = c.reps /\ d.strings = (c.strings \ {c.err}) \cup {c.next} /\ d.held = c.held
      /\ d.err = c.next /\ d.ran = c.ran /\ d.next = c.next + 1 /\ d.out = o
  BY ONLY <1>2
<1>4. Shaped(d)
  BY <1>2, <1>3 DEF Shaped
<1>5. StringsInv(d.strings, d.held, d.err, d.next)
  <2>1. StringsInv(c.strings, c.held, c.err, c.next)
    BY DEF CapiOK
  <2>2. StringsInv((c.strings \ {c.err}) \cup {c.next}, c.held, c.next, c.next + 1)
    BY <1>1, <2>1, NewError
  <2> QED
    BY <2>2, <1>3
<1>6. ObjectsInv(d.handles, DOMAIN d.reps, d.ran, d.next)
  <2>1. ObjectsInv(c.handles, DOMAIN c.reps, c.ran, c.next) /\ c.next + 1 \in Nat /\ c.next <= c.next + 1
    BY <1>1 DEF CapiOK
  <2>2. ObjectsInv(c.handles, DOMAIN c.reps, c.ran, c.next + 1)
    BY <2>1, ObjectsLater
  <2> QED
    BY <2>2, <1>3
<1> QED
  BY <1>3, <1>4, <1>5, <1>6 DEF CapiOK

\* A string for the client.
LEMMA CopiedOK ==
    ASSUME NEW c, CapiOK(c), NEW len, NEW d, d = CopyString(c, len)
    PROVE  CapiOK(d)
<1>1. Shaped(c) /\ c.next \in Nat \ {0}
  BY DEF CapiOK, ObjectsInv
<1>2. d = [handles |-> c.handles, reps |-> c.reps, strings |-> c.strings \cup {c.next}, held |-> c.held \cup {c.next},
           err |-> c.err, ran |-> c.ran, next |-> c.next + 1, out |-> c.out]
  BY <1>1 DEF Shaped, CopyString
<1>3. /\ d.handles = c.handles /\ d.reps = c.reps /\ d.strings = c.strings \cup {c.next} /\ d.held = c.held \cup {c.next}
      /\ d.err = c.err /\ d.ran = c.ran /\ d.next = c.next + 1 /\ d.out = c.out
  BY <1>2
<1>4. Shaped(d)
  BY <1>2, <1>3 DEF Shaped
<1>5. StringsInv(d.strings, d.held, d.err, d.next)
  <2>1. StringsInv(c.strings, c.held, c.err, c.next)
    BY DEF CapiOK
  <2>2. StringsInv(c.strings \cup {c.next}, c.held \cup {c.next}, c.err, c.next + 1)
    BY <1>1, <2>1, NewResult
  <2> QED
    BY <2>2, <1>3
<1>6. ObjectsInv(d.handles, DOMAIN d.reps, d.ran, d.next)
  <2>1. ObjectsInv(c.handles, DOMAIN c.reps, c.ran, c.next) /\ c.next + 1 \in Nat /\ c.next <= c.next + 1
    BY <1>1 DEF CapiOK
  <2>2. ObjectsInv(c.handles, DOMAIN c.reps, c.ran, c.next + 1)
    BY <2>1, ObjectsLater
  <2> QED
    BY <2>2, <1>3
<1> QED
  BY <1>3, <1>4, <1>5, <1>6 DEF CapiOK
\* A string the client gives back.
LEMMA FreedOK ==
    ASSUME NEW c, CapiOK(c), NEW p,
           NEW d, d = [c EXCEPT !.strings = @ \ {p}, !.held = @ \ {p}, !.err = IF @ = p THEN 0 ELSE @,
                                !.out = [op |-> "free"]]
    PROVE  CapiOK(d)
<1> DEFINE o == [op |-> "free"]
           none == IF c.err = p THEN 0 ELSE c.err
<1>1. Shaped(c) /\ c.next \in Nat \ {0}
  BY DEF CapiOK, ObjectsInv
<1>2. d = [handles |-> c.handles, reps |-> c.reps, strings |-> c.strings \ {p}, held |-> c.held \ {p},
           err |-> none, ran |-> c.ran, next |-> c.next, out |-> o]
  BY <1>1 DEF Shaped
<1>3. AnswerTold(o) /\ \A err : ErrorTold(o, err)
  BY DEF AnswerTold, ErrorTold
<1>4. StringsInv(c.strings \ {p}, c.held \ {p}, none, c.next)
  <2>1. StringsInv(c.strings, c.held, c.err, c.next)
    BY DEF CapiOK
  <2> QED
    BY <1>1, <2>1, FreedString
<1> HIDE DEF o, none
<1>5. /\ d.handles = c.handles /\ d.reps = c.reps /\ d.strings = c.strings \ {p} /\ d.held = c.held \ {p}
      /\ d.err = none /\ d.ran = c.ran /\ d.next = c.next /\ d.out = o
  BY ONLY <1>2
<1>6. Shaped(d)
  BY <1>2, <1>5 DEF Shaped
<1> QED
  BY <1>3, <1>4, <1>5, <1>6 DEF CapiOK
\* A string that was only passed through.
LEMMA PassedOK ==
    ASSUME NEW c, CapiOK(c), NEW o, ErrorTold(o, c.err), AnswerTold(o), NEW d, NEW made,
           made = [c EXCEPT !.strings = @ \cup {c.next}, !.next = @ + 1, !.out = o],
           d = [made EXCEPT !.strings = @ \ {c.next}]
    PROVE  CapiOK(d)
<1>1. Shaped(c) /\ c.next \in Nat \ {0}
  BY DEF CapiOK, ObjectsInv
<1>2. made = [handles |-> c.handles, reps |-> c.reps, strings |-> c.strings \cup {c.next}, held |-> c.held,
              err |-> c.err, ran |-> c.ran, next |-> c.next + 1, out |-> o]
  BY <1>1 DEF Shaped
<1>3. StringsInv(c.strings, c.held, c.err, c.next)
  BY DEF CapiOK
<1>4. (c.strings \cup {c.next}) \ {c.next} = c.strings
  BY <1>1, <1>3 DEF StringsInv
<1>5. d = [handles |-> c.handles, reps |-> c.reps, strings |-> c.strings, held |-> c.held,
           err |-> c.err, ran |-> c.ran, next |-> c.next + 1, out |-> o]
  BY <1>2, <1>4
<1>6. /\ d.handles = c.handles /\ d.reps = c.reps /\ d.strings = c.strings /\ d.held = c.held
      /\ d.err = c.err /\ d.ran = c.ran /\ d.next = c.next + 1 /\ d.out = o
  BY ONLY <1>5
<1>7. Shaped(d)
  BY <1>5, <1>6 DEF Shaped
<1>8. StringsInv(c.strings, c.held, c.err, c.next + 1)
  <2>1. c.next + 1 \in Nat /\ c.next <= c.next + 1
    BY <1>1
  <2> QED
    BY <1>1, <1>3, <2>1, StringsLater
<1>9. ObjectsInv(d.handles, DOMAIN d.reps, d.ran, d.next)
  <2>1. ObjectsInv(c.handles, DOMAIN c.reps, c.ran, c.next) /\ c.next + 1 \in Nat /\ c.next <= c.next + 1
    BY <1>1 DEF CapiOK
  <2>2. ObjectsInv(c.handles, DOMAIN c.reps, c.ran, c.next + 1)
    BY <2>1, ObjectsLater
  <2> QED
    BY <2>2, <1>6
<1> QED
  BY <1>6, <1>7, <1>8, <1>9 DEF CapiOK

-----------------------------------------------------------------------------
(* Bindings: the calls *)

\* The wrappers the calls make.
LEMMA NewWrappers ==
    ASSUME NEW n \in Nat \ {0}
    PROVE  /\ \A o \in Nat : Handle("db", n, [options |-> o]) \in Wrapper
           /\ \A kind \in {"snapshot", "iterator", "cache"} : Handle(kind, n, <<>>) \in Wrapper
           /\ Handle("filter", n, [state |-> FALSE]) \in Wrapper
           /\ Handle("filter", 0, [state |-> TRUE]) \in Wrapper
           /\ Handle("comparator", 0, [state |-> TRUE]) \in Wrapper
           /\ Handle("batch", 0, [ops |-> <<>>]) \in Wrapper
           /\ Handle("options", 0, NewOptions) \in Wrapper
           /\ Handle("readoptions", 0, [snapshot |-> 0]) \in Wrapper
           /\ Handle("env", -1, [is_default |-> TRUE]) \in Wrapper
<1>1. \A o \in Nat : Handle("db", n, [options |-> o]) \in DBWrapper
  BY DEF Handle, DBWrapper
<1>2. \A kind \in {"snapshot", "iterator", "cache"} : Handle(kind, n, <<>>) \in ObjectWrapper
  BY DEF Handle, ObjectWrapper
<1>3. Handle("filter", n, [state |-> FALSE]) \in FilterWrapper /\ Handle("filter", 0, [state |-> TRUE]) \in FilterWrapper
  BY DEF Handle, FilterWrapper
<1>4. Handle("comparator", 0, [state |-> TRUE]) \in ComparatorWrapper
  BY DEF Handle, ComparatorWrapper
<1>5. Handle("batch", 0, [ops |-> <<>>]) \in BatchWrapper
  BY DEF Handle, BatchWrapper
<1>6. Handle("options", 0, NewOptions) \in OptionsWrapper
  BY DEF Handle, OptionsWrapper, OptionsFields, NewOptions
<1>7. Handle("readoptions", 0, [snapshot |-> 0]) \in ReadOptionsWrapper
  BY DEF Handle, ReadOptionsWrapper
<1>8. Handle("env", -1, [is_default |-> TRUE]) \in EnvWrapper
  BY DEF Handle, EnvWrapper
<1> QED
  BY <1>1, <1>2, <1>3, <1>4, <1>5, <1>6, <1>7, <1>8 DEF Wrapper

\* What the invariant says of one wrapper.
LEMMA OneWrapper ==
    ASSUME CapiInv, NEW x \in DOMAIN capi.handles
    PROVE  x \in Nat \ {0} /\ H(x) \in Wrapper /\ capi.next \in Nat \ {0} /\ capi.next + 1 \in Nat \ {0}
BY DEF CapiInv, CapiOK, ObjectsInv, WrappersOK, H
\* A call may reach a wrapper of a kind by its number.
LEMMA OfIs ==
    ASSUME NEW kind, NEW x
    PROVE  x \in Of(kind) <=> x \in DOMAIN capi.handles /\ capi.handles[x].kind = kind /\ H(x).kind = kind
BY DEF Of, H

\* A call whose Status may be an error.
LEMMA AnswerOK ==
    ASSUME CapiInv, NEW op, op # "get", NEW ok \in BOOLEAN, Answer(op, capi, ok)
    PROVE  CapiInv'
<1> DEFINE o == [op |-> op, ok |-> ok, err |-> capi.err]
<1>1. capi' = SaveError([capi EXCEPT !.out = o], ok)
  BY DEF Answer
<1>2. AnswerTold(o) /\ (\A err : ErrorTold(o, err) <=> (~ok <=> err # capi.err))
  BY DEF AnswerTold, ErrorTold, Failed
<1>3. capi.next # capi.err
  BY DEF CapiInv, CapiOK, StringsInv, ObjectsInv
<1> HIDE DEF o
<1>4. CASE ok
  <2>1. capi' = [capi EXCEPT !.out = o]
    BY <1>1, <1>4 DEF SaveError
  <2>2. ErrorTold(o, capi.err)
    BY <1>2, <1>4
  <2> QED
    BY <1>2, <2>1, <2>2, ToldOK DEF CapiInv
<1>5. CASE ~ok
  <2>1. capi' = SaveError([capi EXCEPT !.out = o], FALSE)
    BY <1>1, <1>5
  <2>2. ErrorTold(o, capi.next)
    BY <1>2, <1>3, <1>5
  <2> QED
    BY <1>2, <2>1, <2>2, FailedOK DEF CapiInv
<1> QED
  BY <1>4, <1>5

\* A call that tells of no error.
LEMMA TellsOK ==
    ASSUME NEW op, op # "get"
    PROVE  /\ AnswerTold([op |-> op]) /\ \A err : ErrorTold([op |-> op], err)
           /\ \A x : AnswerTold([op |-> op, ptr |-> x]) /\ \A err : ErrorTold([op |-> op, ptr |-> x], err)
           /\ \A x : AnswerTold([op |-> op, len |-> x]) /\ \A err : ErrorTold([op |-> op, len |-> x], err)
           /\ \A x : AnswerTold([op |-> op, seen |-> x]) /\ \A err : ErrorTold([op |-> op, seen |-> x], err)
BY DEF AnswerTold, ErrorTold

\* Nobody points to a wrapper of these kinds.
LEMMA UnusedKinds ==
    ASSUME NEW handles, NEW x, handles[x].kind \notin {"comparator", "filter", "cache", "snapshot"}
    PROVE  Unused(handles, x)
BY DEF Unused

\* leveldb_open, leveldb_destroy_db, leveldb_repair_db.
LEMMA OpenOK ==
    ASSUME CapiInv, NEW o \in Of("options"), leveldb_open(o) \/ leveldb_destroy_db(o) \/ leveldb_repair_db(o)
    PROVE  CapiInv'
<1>1. CASE leveldb_open(o)
  <2>1. PICK ok \in BOOLEAN :
             IF ok THEN capi' = [WithRep(capi, "db", [options |-> o], [kind |-> "DB"]) EXCEPT
                                   !.out = [op |-> "open", ok |-> TRUE, err |-> capi.err]]
                   ELSE Answer("open", capi, FALSE)
    BY <1>1 DEF leveldb_open
  <2>2. CASE ok
    <3> DEFINE c == WithRep(capi, "db", [options |-> o], [kind |-> "DB"])
               t == [op |-> "open", ok |-> TRUE, err |-> capi.err]
    <3>1. Handle("db", capi.next + 1, [options |-> o]) \in Wrapper
      BY OneWrapper, OfIs, NewWrappers
    <3>2. CapiOK(c) /\ c.err = capi.err
      BY <3>1, WithRepOK DEF CapiInv
    <3>3. AnswerTold(t) /\ ErrorTold(t, capi.err)
      BY DEF AnswerTold, ErrorTold, Failed
    <3>4. capi' = [c EXCEPT !.out = t]
      BY <2>1, <2>2
    <3> HIDE DEF c, t
    <3> QED
      BY <3>2, <3>3, <3>4, ToldOK DEF CapiInv
  <2>3. CASE ~ok
    BY <2>1, <2>3, AnswerOK
  <2> QED
    BY <2>2, <2>3
<1>2. CASE leveldb_destroy_db(o)
  BY <1>2, AnswerOK DEF leveldb_destroy_db
<1>3. CASE leveldb_repair_db(o)
  BY <1>3, AnswerOK DEF leveldb_repair_db
<1> QED
  BY <1>1, <1>2, <1>3

\* leveldb_get: a copy of the value, nothing, or an error.
LEMMA GetOK ==
    ASSUME CapiInv, NEW d, NEW r, NEW k, leveldb_get(d, r, k)
    PROVE  CapiInv'
<1> DEFINE v == Seen(r)[k]
           Out(ptr, len, status) == [op |-> "get", held |-> v, ptr |-> ptr, len |-> len,
                                     status |-> status, err |-> capi.err]
<1>1. capi.next \in Nat \ {0} /\ capi.next # capi.err
  BY DEF CapiInv, CapiOK, StringsInv, ObjectsInv
<1>2. CASE v # -1 /\ capi' = CopyString([capi EXCEPT !.out = Out(capi.next, v, "ok")], v)
  <2> DEFINE c == [capi EXCEPT !.out = Out(capi.next, v, "ok")]
  <2>1. AnswerTold(Out(capi.next, v, "ok")) /\ ErrorTold(Out(capi.next, v, "ok"), capi.err)
    BY <1>1, <1>2 DEF AnswerTold, ErrorTold, Failed
  <2> HIDE DEF Out
  <2>2. CapiOK(c)
    BY <2>1, ToldOK DEF CapiInv
  <2> HIDE DEF c
  <2>3. capi' = CopyString(c, v)
    BY <1>2 DEF c
  <2> QED
    BY <2>2, <2>3, CopiedOK DEF CapiInv
<1>3. CASE v = -1 /\ capi' = [capi EXCEPT !.out = Out(0, 0, "notfound")]
  <2>1. AnswerTold(Out(0, 0, "notfound")) /\ ErrorTold(Out(0, 0, "notfound"), capi.err)
    BY <1>3 DEF AnswerTold, ErrorTold, Failed
  <2> HIDE DEF Out
  <2> QED
    BY <1>3, <2>1, ToldOK DEF CapiInv
<1>4. CASE capi' = SaveError([capi EXCEPT !.out = Out(0, 0, "error")], FALSE)
  <2>1. AnswerTold(Out(0, 0, "error")) /\ ErrorTold(Out(0, 0, "error"), capi.next)
    BY <1>1 DEF AnswerTold, ErrorTold, Failed
  <2> HIDE DEF Out
  <2> QED
    BY <1>4, <2>1, FailedOK DEF CapiInv
<1> QED
  BY <1>2, <1>3, <1>4 DEF leveldb_get

\* A wrapper with an object is made; the call tells nothing new, or that it
\* made one.
LEMMA MadeOK ==
    ASSUME CapiInv, NEW kind, NEW fields, NEW obj,
           kind \in {"db", "snapshot", "iterator", "cache", "filter"}, Handle(kind, capi.next + 1, fields) \in Wrapper,
           NEW c, c = WithRep(capi, kind, fields, obj),
           capi' = c \/ capi' = [c EXCEPT !.out = [op |-> "new"]]
    PROVE  CapiInv'
<1> DEFINE o == [op |-> "new"]
<1>1. CapiOK(c)
  BY WithRepOK DEF CapiInv
<1>2. AnswerTold(o) /\ ErrorTold(o, c.err)
  BY TellsOK
<1> HIDE DEF o
<1>3. CASE capi' = c
  BY <1>1, <1>3 DEF CapiInv
<1>4. CASE capi' = [c EXCEPT !.out = o]
  BY <1>1, <1>2, <1>4, ToldOK DEF CapiInv
<1> QED
  BY <1>3, <1>4 DEF o
\* A wrapper that is the object.
LEMMA PlainMade ==
    ASSUME CapiInv, NEW kind, NEW fields, Handle(kind, 0, fields) \in Wrapper,
           kind = "options" => fields = NewOptions, kind = "readoptions" => fields = [snapshot |-> 0],
           capi' = Plain(capi, kind, fields)
    PROVE  CapiInv'
<1> DEFINE w == Handle(kind, 0, fields)
<1>1. w.kind = kind /\ w.rep = 0 /\ w.fields = fields /\ w \in Wrapper
  BY DEF Handle
<1>2. capi' = [capi EXCEPT !.handles = Put1(@, capi.next, w), !.next = @ + 1]
  BY DEF Plain
<1> HIDE DEF w
<1> QED
  BY <1>1, <1>2, PlainOK DEF CapiInv

\* The calls of a database.
LEMMA DBCallsOK ==
    ASSUME CapiInv, DBCalls
    PROVE  CapiInv'
<1>1. ASSUME NEW o \in Of("options"), leveldb_open(o) \/ leveldb_destroy_db(o) \/ leveldb_repair_db(o)
      PROVE  CapiInv'
  BY <1>1, OpenOK
<1>2. ASSUME NEW p, leveldb_free(p) PROVE CapiInv'
  <2>1. capi' = [capi EXCEPT !.strings = @ \ {p}, !.held = @ \ {p}, !.err = IF @ = p THEN 0 ELSE @,
                             !.out = [op |-> "free"]]
    BY <1>2 DEF leveldb_free
  <2> QED
    BY <2>1, FreedOK DEF CapiInv
<1>3. ASSUME NEW d \in DBOpen, leveldb_close(d) PROVE CapiInv'
  <2>1. d \in DOMAIN capi.handles /\ capi.handles[d].kind = "db" /\ capi' = Deleted(capi, d)
    BY <1>3, OfIs DEF leveldb_close, DBOpen
  <2>2. Unused(capi.handles, d)
    BY <2>1, UnusedKinds
  <2> QED
    BY <2>1, <2>2, DeletedOK DEF CapiInv
<1>4. ASSUME NEW d \in DBOpen, leveldb_create_snapshot(d) PROVE CapiInv'
  <2>1. d \in DOMAIN capi.handles
    BY <1>4, OfIs DEF DBOpen
  <2>2. Handle("snapshot", capi.next + 1, <<>>) \in Wrapper
    BY <2>1, OneWrapper, NewWrappers
  <2> QED
    BY <1>4, <2>2, MadeOK DEF leveldb_create_snapshot
<1>5. ASSUME NEW d, leveldb_approximate_sizes(d) \/ leveldb_compact_range(d) PROVE CapiInv'
  <2> DEFINE a == [op |-> "sizes"]
             b == [op |-> "compact"]
  <2>1. AnswerTold(a) /\ ErrorTold(a, capi.err) /\ AnswerTold(b) /\ ErrorTold(b, capi.err)
    BY TellsOK
  <2>2. capi' = [capi EXCEPT !.out = a] \/ capi' = [capi EXCEPT !.out = b]
    BY <1>5 DEF leveldb_approximate_sizes, leveldb_compact_range
  <2> HIDE DEF a, b
  <2> QED
    BY <2>1, <2>2, ToldOK DEF CapiInv
<1>6. ASSUME NEW d, NEW p, leveldb_property_value(d, p) PROVE CapiInv'
  <2> DEFINE a == [op |-> "property", ptr |-> capi.next]
             b == [op |-> "property", ptr |-> 0]
             c == [capi EXCEPT !.out = a]
  <2>1. AnswerTold(a) /\ ErrorTold(a, capi.err) /\ AnswerTold(b) /\ ErrorTold(b, capi.err)
    BY TellsOK
  <2>2. capi' = CopyString(c, 1) \/ capi' = [capi EXCEPT !.out = b]
    BY <1>6 DEF leveldb_property_value
  <2> HIDE DEF a, b
  <2>3. CapiOK(c)
    BY <2>1, ToldOK DEF CapiInv
  <2> HIDE DEF c
  <2> QED
    BY <2>1, <2>2, <2>3, ToldOK, CopiedOK DEF CapiInv
<1>7. ASSUME NEW d, NEW k, leveldb_delete(d, k) \/ \E v \in ApiValue : leveldb_put(d, k, v) PROVE CapiInv'
  BY <1>7, AnswerOK DEF leveldb_delete, leveldb_put
<1>8. ASSUME NEW d, NEW b, leveldb_write(d, b) PROVE CapiInv'
  BY <1>8, AnswerOK DEF leveldb_write
<1>9. ASSUME NEW d \in DBOpen, NEW r, leveldb_create_iterator(d, r) PROVE CapiInv'
  <2>1. d \in DOMAIN capi.handles
    BY <1>9, OfIs DEF DBOpen
  <2>2. Handle("iterator", capi.next + 1, <<>>) \in Wrapper
    BY <2>1, OneWrapper, NewWrappers
  <2> QED
    BY <1>9, <2>2, MadeOK DEF leveldb_create_iterator
<1>10. ASSUME NEW d, NEW r, NEW k, leveldb_get(d, r, k) PROVE CapiInv'
  BY <1>10, GetOK
<1>11. ASSUME NEW d, NEW s \in Of("snapshot"), leveldb_release_snapshot(d, s) PROVE CapiInv'
  <2>1. s \in DOMAIN capi.handles /\ capi.handles[s].kind = "snapshot" /\ capi' = Deleted(capi, s)
    BY <1>11, OfIs DEF leveldb_release_snapshot
  <2>2. Unused(capi.handles, s)
    BY <1>11, <2>1 DEF leveldb_release_snapshot, Unused, Of, H
  <2> QED
    BY <2>1, <2>2, DeletedOK DEF CapiInv
<1> QED
  BY <1>1, <1>2, <1>3, <1>4, <1>5, <1>6, <1>7, <1>8, <1>9, <1>10, <1>11 DEF DBCalls

\* The calls of an iterator.
LEMMA IterCallsOK ==
    ASSUME CapiInv, IterCalls
    PROVE  CapiInv'
<1> PICK i \in Of("iterator") :
        leveldb_iter_destroy(i) \/ leveldb_iter_move(i) \/ leveldb_iter_value(i) \/ leveldb_iter_get_error(i)
  BY DEF IterCalls
<1>1. i \in DOMAIN capi.handles /\ capi.handles[i].kind = "iterator"
  BY OfIs
<1>2. CASE leveldb_iter_destroy(i)
  <2>1. Unused(capi.handles, i)
    BY <1>1, UnusedKinds
  <2> QED
    BY <1>1, <1>2, <2>1, DeletedOK DEF leveldb_iter_destroy, CapiInv
<1>3. CASE leveldb_iter_move(i)
  <2> DEFINE o == [op |-> "move"]
  <2>1. PICK to : capi' = [capi EXCEPT !.reps[H(i).rep].at = to, !.out = o]
    BY <1>3 DEF leveldb_iter_move
  <2>2. AnswerTold(o) /\ ErrorTold(o, capi.err)
    BY TellsOK
  <2> HIDE DEF o
  <2> DEFINE obj == [capi.reps[H(i).rep] EXCEPT !.at = to]
  <2>3. capi' = [capi EXCEPT !.reps[H(i).rep] = obj, !.out = o]
    BY <2>1
  <2> HIDE DEF obj
  <2> QED
    BY <2>2, <2>3, MovedOK DEF CapiInv
<1>4. CASE leveldb_iter_value(i)
  <2> DEFINE o == [op |-> "entry", len |-> capi.reps[H(i).rep].view[capi.reps[H(i).rep].at]]
  <2>1. AnswerTold(o) /\ ErrorTold(o, capi.err)
    BY TellsOK
  <2>2. capi' = [capi EXCEPT !.out = o]
    BY <1>4 DEF leveldb_iter_value
  <2> HIDE DEF o
  <2> QED
    BY <2>1, <2>2, ToldOK DEF CapiInv
<1>5. CASE leveldb_iter_get_error(i)
  BY <1>5, AnswerOK DEF leveldb_iter_get_error
<1> QED
  BY <1>2, <1>3, <1>4, <1>5

\* A batch's operations are set.
LEMMA BatchSet ==
    ASSUME CapiInv, NEW b \in Of("batch"), NEW ops \in Seq(BatchOp), capi' = [capi EXCEPT !.handles[b].fields.ops = ops]
    PROVE  CapiInv'
<1> DEFINE w == [H(b) EXCEPT !.fields.ops = ops]
<1>1. b \in DOMAIN capi.handles /\ capi.handles[b].kind = "batch" /\ H(b) = capi.handles[b] /\ H(b) \in BatchWrapper
  BY OfIs, OneWrapper, WrapperIs DEF H
<1>2. capi' = [capi EXCEPT !.handles[b] = w]
  BY <1>1
<1>3. w \in BatchWrapper /\ w.kind = "batch" /\ w.rep = H(b).rep
  BY <1>1 DEF BatchWrapper
<1>4. w \in Wrapper
  BY <1>3 DEF Wrapper
<1> HIDE DEF w
<1> QED
  BY <1>1, <1>2, <1>3, <1>4, ChangedOK DEF CapiInv

\* The calls of a batch.
LEMMA BatchCallsOK ==
    ASSUME CapiInv, BatchCalls
    PROVE  CapiInv'
<1>1. CASE leveldb_writebatch_create
  <2>1. Handle("batch", 0, [ops |-> <<>>]) \in Wrapper
    BY NewWrappers
  <2> QED
    BY <1>1, <2>1, PlainMade DEF leveldb_writebatch_create
<1>2. ASSUME NEW b \in Of("batch"),
             \/ leveldb_writebatch_destroy(b) \/ leveldb_writebatch_clear(b) \/ leveldb_writebatch_iterate(b)
             \/ \E k \in ApiKey : leveldb_writebatch_delete(b, k) \/ \E v \in ApiValue : leveldb_writebatch_put(b, k, v)
      PROVE  CapiInv'
  <2>1. b \in DOMAIN capi.handles /\ capi.handles[b].kind = "batch" /\ H(b) \in BatchWrapper
    BY OfIs, OneWrapper, WrapperIs
  <2>2. CASE leveldb_writebatch_destroy(b)
    <3>1. Unused(capi.handles, b)
      BY <2>1, UnusedKinds
    <3> QED
      BY <2>1, <2>2, <3>1, DeletedOK DEF leveldb_writebatch_destroy, CapiInv
  <2>3. CASE leveldb_writebatch_clear(b)
    <3> DEFINE ops == <<>>
    <3>1. ops \in Seq(BatchOp) /\ capi' = [capi EXCEPT !.handles[b].fields.ops = ops]
      BY <2>3 DEF leveldb_writebatch_clear
    <3> HIDE DEF ops
    <3> QED
      BY <3>1, BatchSet
  <2>4. CASE leveldb_writebatch_iterate(b)
    <3> DEFINE o == [op |-> "iterate", seen |-> H(b).fields.ops]
    <3>1. AnswerTold(o) /\ ErrorTold(o, capi.err)
      BY TellsOK
    <3>2. capi' = [capi EXCEPT !.out = o]
      BY <2>4 DEF leveldb_writebatch_iterate
    <3> HIDE DEF o
    <3> QED
      BY <3>1, <3>2, ToldOK DEF CapiInv
  <2>5. ASSUME NEW k \in ApiKey, NEW v \in ApiValue \cup {-1}, leveldb_writebatch_put(b, k, v) PROVE CapiInv'
    <3> DEFINE ops == Append(H(b).fields.ops, [key |-> k, val |-> v])
    <3>1. H(b).fields.ops \in Seq(BatchOp) /\ [key |-> k, val |-> v] \in BatchOp
      BY <2>1 DEF BatchWrapper, BatchOp
    <3>2. ops \in Seq(BatchOp)
      BY <3>1
    <3>3. capi' = [capi EXCEPT !.handles[b].fields.ops = ops]
      BY <2>5 DEF leveldb_writebatch_put, H
    <3> HIDE DEF ops
    <3> QED
      BY <3>2, <3>3, BatchSet
  <2> QED
    BY <1>2, <2>2, <2>3, <2>4, <2>5 DEF leveldb_writebatch_delete
<1> QED
  BY <1>1, <1>2 DEF BatchCalls

\* A field of the options is set.
LEMMA OptionsSet ==
    ASSUME CapiInv, NEW o \in Of("options"), NEW f \in OptionsFields, OptionsPoint(capi.handles, f),
           capi' = [capi EXCEPT !.handles[o].fields = f]
    PROVE  CapiInv'
<1> DEFINE w == [H(o) EXCEPT !.fields = f]
<1>1. o \in DOMAIN capi.handles /\ capi.handles[o].kind = "options" /\ H(o) = capi.handles[o] /\ H(o) \in OptionsWrapper
  BY OfIs, OneWrapper, WrapperIs DEF H
<1>2. capi' = [capi EXCEPT !.handles[o] = w]
  BY <1>1
<1>3. w \in OptionsWrapper /\ w.kind = "options" /\ w.rep = H(o).rep /\ w.fields = f
  BY <1>1 DEF OptionsWrapper
<1>4. w \in Wrapper
  BY <1>3 DEF Wrapper
<1> HIDE DEF w
<1> QED
  BY <1>1, <1>2, <1>3, <1>4, ChangedOK DEF CapiInv
\* What options hold is there.
LEMMA OptionsAre ==
    ASSUME CapiInv, NEW o \in Of("options")
    PROVE  H(o).fields \in OptionsFields /\ OptionsPoint(capi.handles, H(o).fields)
<1>1. o \in DOMAIN capi.handles /\ capi.handles[o].kind = "options" /\ H(o) \in OptionsWrapper
  BY OfIs, OneWrapper, WrapperIs
<1>2. H(o).fields \in OptionsFields
  BY <1>1 DEF OptionsWrapper
<1> QED
  BY <1>1, <1>2 DEF CapiInv, CapiOK, ObjectsInv, PointersOK, H

\* Options are set or destroyed.
LEMMA OptionsOK ==
    ASSUME CapiInv, NEW o \in Of("options"),
           \/ leveldb_options_destroy(o) \/ \E v \in {0, 2} : leveldb_options_set_bool(o, v)
           \/ \E c \in Of("comparator") : leveldb_options_set_comparator(o, c)
           \/ \E f \in Of("filter") : leveldb_options_set_filter_policy(o, f)
           \/ \E e \in Of("env") \cup {0} : leveldb_options_set_env(o, e)
           \/ \E c \in Of("cache") : leveldb_options_set_cache(o, c)
    PROVE  CapiInv'
<1> DEFINE g == H(o).fields
<1>1. g \in OptionsFields /\ OptionsPoint(capi.handles, g) /\ capi.handles[o].fields = g
  BY OptionsAre DEF H
<1>2. CASE leveldb_options_destroy(o)
  <2>1. o \in DOMAIN capi.handles /\ capi.handles[o].kind = "options"
    BY OfIs
  <2>2. Unused(capi.handles, o)
    BY <2>1, UnusedKinds
  <2> QED
    BY <1>2, <2>1, <2>2, DeletedOK DEF leveldb_options_destroy, CapiInv
<1>3. ASSUME NEW v \in {0, 2}, leveldb_options_set_bool(o, v) PROVE CapiInv'
  <2> DEFINE f == [g EXCEPT !.create = (v # 0)]
  <2>1. f \in OptionsFields /\ f.comparator = g.comparator /\ f.filter = g.filter /\ f.cache = g.cache
    BY <1>1 DEF OptionsFields
  <2>2. capi' = [capi EXCEPT !.handles[o].fields = f]
    BY <1>1, <1>3 DEF leveldb_options_set_bool
  <2> HIDE DEF f, g
  <2>3. OptionsPoint(capi.handles, f)
    BY <1>1, <2>1 DEF OptionsPoint
  <2> QED
    BY <2>1, <2>2, <2>3, OptionsSet
<1>4. ASSUME NEW c \in Of("comparator"), leveldb_options_set_comparator(o, c) PROVE CapiInv'
  <2> DEFINE f == [g EXCEPT !.comparator = c]
  <2>1. c \in Nat /\ IsWrapper(capi.handles, c, "comparator")
    BY OfIs, OneWrapper DEF IsWrapper
  <2>2. f \in OptionsFields /\ f.comparator = c /\ f.filter = g.filter /\ f.cache = g.cache
    BY <1>1, <2>1 DEF OptionsFields
  <2>3. capi' = [capi EXCEPT !.handles[o].fields = f]
    BY <1>1, <1>4 DEF leveldb_options_set_comparator
  <2> HIDE DEF f, g
  <2>4. OptionsPoint(capi.handles, f)
    BY <1>1, <2>1, <2>2 DEF OptionsPoint
  <2> QED
    BY <2>2, <2>3, <2>4, OptionsSet
<1>5. ASSUME NEW p \in Of("filter"), leveldb_options_set_filter_policy(o, p) PROVE CapiInv'
  <2> DEFINE f == [g EXCEPT !.filter = p]
  <2>1. p \in Nat /\ IsWrapper(capi.handles, p, "filter")
    BY OfIs, OneWrapper DEF IsWrapper
  <2>2. f \in OptionsFields /\ f.comparator = g.comparator /\ f.filter = p /\ f.cache = g.cache
    BY <1>1, <2>1 DEF OptionsFields
  <2>3. capi' = [capi EXCEPT !.handles[o].fields = f]
    BY <1>1, <1>5 DEF leveldb_options_set_filter_policy
  <2> HIDE DEF f, g
  <2>4. OptionsPoint(capi.handles, f)
    BY <1>1, <2>1, <2>2 DEF OptionsPoint
  <2> QED
    BY <2>2, <2>3, <2>4, OptionsSet
<1>6. ASSUME NEW e \in Of("env") \cup {0}, leveldb_options_set_env(o, e) PROVE CapiInv'
  <2> DEFINE r == IF e = 0 THEN 0 ELSE H(e).rep
             f == [g EXCEPT !.env = r]
  <2>1. r \in {0, -1}
    <3>1. CASE e = 0
      BY <3>1
    <3>2. CASE e \in Of("env")
      <4>1. H(e) \in EnvWrapper
        BY <3>2, OfIs, OneWrapper, WrapperIs
      <4> QED
        BY <4>1 DEF EnvWrapper
    <3> QED
      BY <3>1, <3>2
  <2>2. capi' = [capi EXCEPT !.handles[o].fields = f]
    BY <1>1, <1>6 DEF leveldb_options_set_env
  <2> HIDE DEF r
  <2>3. f \in OptionsFields /\ f.comparator = g.comparator /\ f.filter = g.filter /\ f.cache = g.cache
    BY <1>1, <2>1 DEF OptionsFields
  <2> HIDE DEF f, g
  <2>4. OptionsPoint(capi.handles, f)
    BY <1>1, <2>3 DEF OptionsPoint
  <2> QED
    BY <2>2, <2>3, <2>4, OptionsSet
<1>7. ASSUME NEW c \in Of("cache"), leveldb_options_set_cache(o, c) PROVE CapiInv'
  <2> DEFINE r == H(c).rep
             f == [g EXCEPT !.cache = r]
  <2>1. r \in Nat /\ IsObject(capi.handles, r, "cache")
    <3>1. c \in DOMAIN capi.handles /\ capi.handles[c].kind = "cache" /\ H(c) \in ObjectWrapper
      BY OfIs, OneWrapper, WrapperIs
    <3>2. r \in Nat
      BY <3>1 DEF ObjectWrapper
    <3> QED
      BY <3>1, <3>2 DEF IsObject, H
  <2>2. capi' = [capi EXCEPT !.handles[o].fields = f]
    BY <1>1, <1>7 DEF leveldb_options_set_cache
  <2> HIDE DEF r
  <2>3. f \in OptionsFields /\ f.comparator = g.comparator /\ f.filter = g.filter /\ f.cache = r
    BY <1>1, <2>1 DEF OptionsFields
  <2> HIDE DEF f, g
  <2>4. OptionsPoint(capi.handles, f)
    BY <1>1, <2>1, <2>3 DEF OptionsPoint
  <2> QED
    BY <2>2, <2>3, <2>4, OptionsSet
<1> QED
  BY <1>2, <1>3, <1>4, <1>5, <1>6, <1>7

\* Read options and their snapshot.
LEMMA ReadOptionsOK ==
    ASSUME CapiInv, NEW r \in Of("readoptions"),
           leveldb_readoptions_destroy(r) \/ \E s \in Of("snapshot") \cup {0} : leveldb_readoptions_set_snapshot(r, s)
    PROVE  CapiInv'
<1>1. r \in DOMAIN capi.handles /\ capi.handles[r].kind = "readoptions" /\ H(r) = capi.handles[r]
      /\ H(r) \in ReadOptionsWrapper
  BY OfIs, OneWrapper, WrapperIs DEF H
<1>2. CASE leveldb_readoptions_destroy(r)
  <2>1. Unused(capi.handles, r)
    BY <1>1, UnusedKinds
  <2> QED
    BY <1>1, <1>2, <2>1, DeletedOK DEF leveldb_readoptions_destroy, CapiInv
<1>3. ASSUME NEW s \in Of("snapshot") \cup {0}, leveldb_readoptions_set_snapshot(r, s) PROVE CapiInv'
  <2> DEFINE p == IF s = 0 THEN 0 ELSE H(s).rep
             w == [H(r) EXCEPT !.fields.snapshot = p]
  <2>1. p \in Nat /\ (p # 0 => IsObject(capi.handles, p, "snapshot"))
    <3>1. CASE s = 0
      BY <3>1
    <3>2. CASE s # 0
      <4>1. s \in DOMAIN capi.handles /\ capi.handles[s].kind = "snapshot" /\ H(s) \in ObjectWrapper
        BY <3>2, OfIs, OneWrapper, WrapperIs
      <4>2. p = H(s).rep /\ p \in Nat
        BY <3>2, <4>1 DEF ObjectWrapper
      <4> QED
        BY <4>1, <4>2 DEF IsObject, H
    <3> QED
      BY <3>1, <3>2
  <2>2. capi' = [capi EXCEPT !.handles[r] = w]
    BY <1>1, <1>3 DEF leveldb_readoptions_set_snapshot
  <2> HIDE DEF p
  <2>3. w \in ReadOptionsWrapper /\ w.kind = "readoptions" /\ w.rep = H(r).rep /\ w.fields.snapshot = p
    BY <1>1, <2>1 DEF ReadOptionsWrapper
  <2>4. w \in Wrapper
    BY <2>3 DEF Wrapper
  <2> HIDE DEF w
  <2>5. ReadOptionsPoint(capi.handles, w.fields)
    BY <2>1, <2>3 DEF ReadOptionsPoint
  <2> QED
    BY <1>1, <2>2, <2>3, <2>4, <2>5, ChangedOK DEF CapiInv
<1> QED
  BY <1>2, <1>3
\* The calls of options and read options.
LEMMA OptionCallsOK ==
    ASSUME CapiInv, OptionCalls
    PROVE  CapiInv'
<1>1. CASE leveldb_options_create
  <2>1. Handle("options", 0, NewOptions) \in Wrapper
    BY NewWrappers
  <2> QED
    BY <1>1, <2>1, PlainMade DEF leveldb_options_create
<1>2. CASE leveldb_readoptions_create
  <2>1. Handle("readoptions", 0, [snapshot |-> 0]) \in Wrapper
    BY NewWrappers
  <2> QED
    BY <1>2, <2>1, PlainMade DEF leveldb_readoptions_create
<1> QED
  BY <1>1, <1>2, OptionsOK, ReadOptionsOK DEF OptionCalls

\* Comparators, filter policies, caches and environments.
LEMMA ObjectsMade ==
    ASSUME CapiInv,
           \/ leveldb_comparator_create \/ leveldb_filterpolicy_create \/ leveldb_filterpolicy_create_bloom
           \/ leveldb_cache_create_lru \/ leveldb_create_default_env
    PROVE  CapiInv'
<1>1. capi.next \in Nat \ {0} /\ capi.next + 1 \in Nat \ {0}
  BY DEF CapiInv, CapiOK, ObjectsInv
<1>2. /\ Handle("comparator", 0, [state |-> TRUE]) \in Wrapper
      /\ Handle("filter", 0, [state |-> TRUE]) \in Wrapper
      /\ Handle("filter", capi.next + 1, [state |-> FALSE]) \in Wrapper
      /\ Handle("cache", capi.next + 1, <<>>) \in Wrapper
      /\ Handle("env", -1, [is_default |-> TRUE]) \in Wrapper
  BY <1>1, NewWrappers
<1>3. CASE leveldb_comparator_create
  BY <1>2, <1>3, PlainMade DEF leveldb_comparator_create
<1>4. CASE leveldb_filterpolicy_create
  BY <1>2, <1>4, PlainMade DEF leveldb_filterpolicy_create
<1>5. CASE leveldb_filterpolicy_create_bloom
  <2> DEFINE fields == [state |-> FALSE]
             obj == [kind |-> "BloomFilterPolicy"]
  <2>1. capi' = WithRep(capi, "filter", fields, obj) /\ Handle("filter", capi.next + 1, fields) \in Wrapper
    BY <1>2, <1>5 DEF leveldb_filterpolicy_create_bloom
  <2> HIDE DEF fields, obj
  <2> QED
    BY <2>1, MadeOK
<1>6. CASE leveldb_cache_create_lru
  <2> DEFINE obj == [kind |-> "Cache"]
  <2>1. capi' = WithRep(capi, "cache", <<>>, obj)
    BY <1>6 DEF leveldb_cache_create_lru
  <2> HIDE DEF obj
  <2> QED
    BY <1>2, <2>1, MadeOK
<1>7. CASE leveldb_create_default_env
  <2> DEFINE v == Handle("env", 0, [is_default |-> TRUE])
             w == Handle("env", -1, [is_default |-> TRUE])
             c == Plain(capi, "env", [is_default |-> TRUE])
  <2>1. w \in Wrapper /\ w.rep = -1 /\ w.kind = "env" /\ w = [v EXCEPT !.rep = -1]
    <3>1. w \in Wrapper
      BY <1>2
    <3>2. w.rep = -1 /\ w.kind = "env"
      BY DEF Handle
    <3>3. w = [v EXCEPT !.rep = -1]
      <4>1. \A f : Handle("env", -1, f) = [Handle("env", 0, f) EXCEPT !.rep = -1]
        BY DEF Handle
      <4> QED
        BY <4>1
    <3> HIDE DEF v, w
    <3> QED
      BY <3>1, <3>2, <3>3
  <2>2. Shaped(capi)
    BY DEF CapiInv, CapiOK
  <2>3. c = [capi EXCEPT !.handles = Put1(@, capi.next, v), !.next = @ + 1]
    BY DEF Plain
  <2>4. capi' = [c EXCEPT !.handles[capi.next].rep = -1]
    BY <1>7 DEF leveldb_create_default_env
  <2> HIDE DEF c, v, w
  <2>5. [Put1(capi.handles, capi.next, v) EXCEPT ![capi.next].rep = -1] = Put1(capi.handles, capi.next, w)
    BY <2>1 DEF Put1
  <2>6. capi' = [capi EXCEPT !.handles = Put1(@, capi.next, w), !.next = @ + 1]
    <3>1. c = [handles |-> Put1(capi.handles, capi.next, v), reps |-> capi.reps, strings |-> capi.strings,
               held |-> capi.held, err |-> capi.err, ran |-> capi.ran, next |-> capi.next + 1, out |-> capi.out]
      BY <2>2, <2>3 DEF Shaped
    <3>2. capi' = [handles |-> Put1(capi.handles, capi.next, w), reps |-> capi.reps, strings |-> capi.strings,
                   held |-> capi.held, err |-> capi.err, ran |-> capi.ran, next |-> capi.next + 1, out |-> capi.out]
      BY <2>4, <2>5, <3>1
    <3>3. PICK e : e = [capi EXCEPT !.handles = Put1(@, capi.next, w), !.next = @ + 1]
      OBVIOUS
    <3>4. e = [handles |-> Put1(capi.handles, capi.next, w), reps |-> capi.reps, strings |-> capi.strings,
               held |-> capi.held, err |-> capi.err, ran |-> capi.ran, next |-> capi.next + 1, out |-> capi.out]
      BY <2>2, <3>3 DEF Shaped
    <3> QED
      BY <3>2, <3>3, <3>4
  <2> QED
    BY <2>1, <2>6, PlainOK DEF CapiInv
<1> QED
  BY <1>3, <1>4, <1>5, <1>6, <1>7
\* The calls of comparators, filter policies, caches and environments.
LEMMA ObjectCallsOK ==
    ASSUME CapiInv, ObjectCalls
    PROVE  CapiInv'
<1>1. CASE \/ leveldb_comparator_create \/ leveldb_filterpolicy_create \/ leveldb_filterpolicy_create_bloom
           \/ leveldb_cache_create_lru \/ leveldb_create_default_env
  BY <1>1, ObjectsMade
<1>2. ASSUME NEW c \in Of("comparator"), leveldb_comparator_destroy(c) PROVE CapiInv'
  <2>1. c \in DOMAIN capi.handles /\ capi.handles[c].kind = "comparator"
    BY OfIs
  <2>2. Unused(capi.handles, c)
    BY <1>2, <2>1 DEF leveldb_comparator_destroy, Unused, Of, H
  <2> QED
    BY <1>2, <2>1, <2>2, DestructorRunOK DEF leveldb_comparator_destroy, CapiInv
<1>3. ASSUME NEW f \in Of("filter"), leveldb_filterpolicy_destroy(f) PROVE CapiInv'
  <2>1. f \in DOMAIN capi.handles /\ capi.handles[f].kind = "filter"
    BY OfIs
  <2>2. Unused(capi.handles, f)
    BY <1>3, <2>1 DEF leveldb_filterpolicy_destroy, Unused, Of, H
  <2>3. capi' = DestructorRun(Deleted(capi, f), f) \/ capi' = Deleted(capi, f)
    BY <1>3 DEF leveldb_filterpolicy_destroy
  <2> QED
    BY <2>1, <2>2, <2>3, DestructorRunOK, DeletedOK DEF CapiInv
<1>4. ASSUME NEW f, CreateFilter(f) PROVE CapiInv'
  <2> DEFINE o == [op |-> "filter"]
             made == [capi EXCEPT !.strings = @ \cup {capi.next}, !.next = @ + 1, !.out = o]
  <2>1. AnswerTold(o) /\ ErrorTold(o, capi.err)
    BY TellsOK
  <2>2. capi' = [made EXCEPT !.strings = @ \ {capi.next}]
    BY <1>4 DEF CreateFilter
  <2>3. made = [capi EXCEPT !.strings = @ \cup {capi.next}, !.next = @ + 1, !.out = o]
    OBVIOUS
  <2> HIDE DEF o, made
  <2> QED
    BY <2>1, <2>2, <2>3, PassedOK DEF CapiInv
<1>5. ASSUME NEW c \in Of("cache"), leveldb_cache_destroy(c) PROVE CapiInv'
  <2>1. c \in DOMAIN capi.handles /\ capi.handles[c].kind = "cache"
    BY OfIs
  <2>2. Unused(capi.handles, c)
    BY <1>5, <2>1 DEF leveldb_cache_destroy, Unused, Of, H
  <2> QED
    BY <1>5, <2>1, <2>2, DeletedOK DEF leveldb_cache_destroy, CapiInv
<1>6. ASSUME NEW e \in Of("env"), leveldb_env_destroy(e) PROVE CapiInv'
  <2>1. e \in DOMAIN capi.handles /\ capi.handles[e].kind = "env" /\ H(e) \in EnvWrapper
    BY OfIs, OneWrapper, WrapperIs
  <2>2. capi.handles[e].rep = -1
    BY <2>1 DEF EnvWrapper, H
  <2>3. Unused(capi.handles, e)
    BY <2>1, UnusedKinds
  <2>4. capi' = [capi EXCEPT !.handles = Removed(@, e)] \/ capi' = Deleted(capi, e)
    BY <1>6 DEF leveldb_env_destroy
  <2> QED
    BY <2>1, <2>2, <2>3, <2>4, DefaultEnvOK, DeletedOK DEF CapiInv
<1> QED
  BY <1>1, <1>2, <1>3, <1>4, <1>5, <1>6 DEF ObjectCalls

-----------------------------------------------------------------------------
(* Bindings: the theorem *)

\* A client that begins, and one that has a database.
LEMMA InitCapi == CapiInit => CapiInv
<1> SUFFICES ASSUME CapiInit PROVE CapiInv
  OBVIOUS
<1> DEFINE none == [op |-> "none"]
<1>1. AnswerTold(none) /\ \A err : ErrorTold(none, err)
  BY TellsOK
<1>2. \A n \in Nat \ {0} : StringsInv({}, {}, 0, n)
  BY DEF StringsInv
<1>3. CASE capi = CapiEmpty
  <2>1. ObjectsInv(<<>>, DOMAIN <<>>, <<>>, 1)
    BY DEF ObjectsInv, WrappersOK, RepsOwned, PointersOK, DestroyedGone
  <2>2. Shaped(capi)
    BY <1>3 DEF Shaped, CapiEmpty
  <2>3. /\ capi.handles = <<>> /\ capi.reps = <<>> /\ capi.ran = <<>> /\ capi.next = 1
        /\ capi.strings = {} /\ capi.held = {} /\ capi.err = 0 /\ capi.out = none
    BY <1>3 DEF CapiEmpty
  <2> HIDE DEF none
  <2> QED
    BY <1>1, <1>2, <2>1, <2>2, <2>3 DEF CapiInv, CapiOK
<1>4. CASE capi # CapiEmpty
  <2> DEFINE handles == [h \in {1, 2, 4} |->
                            CASE h = 1 -> Handle("options", 0, NewOptions)
                              [] h = 2 -> Handle("db", 3, [options |-> 1])
                              [] h = 4 -> Handle("readoptions", 0, [snapshot |-> 0])]
             reps == [r \in {3} |-> [kind |-> "DB"]]
  <2>1. capi = [CapiEmpty EXCEPT !.handles = handles, !.reps = reps, !.next = 5]
    BY <1>4 DEF CapiInit
  <2>2. DOMAIN reps = {3}
    OBVIOUS
  <2>3. ObjectsInv(handles, {3}, <<>>, 5)
    <3>1. /\ DOMAIN handles = {1, 2, 4} /\ handles[1] = Handle("options", 0, NewOptions)
          /\ handles[2] = Handle("db", 3, [options |-> 1]) /\ handles[4] = Handle("readoptions", 0, [snapshot |-> 0])
      OBVIOUS
    <3>2. handles[1] \in Wrapper /\ handles[2] \in Wrapper /\ handles[4] \in Wrapper
      <4>1. /\ Handle("options", 0, NewOptions) \in Wrapper /\ Handle("db", 3, [options |-> 1]) \in Wrapper
            /\ Handle("readoptions", 0, [snapshot |-> 0]) \in Wrapper
        BY NewWrappers
      <4> HIDE DEF handles
      <4> QED
        BY <3>1, <4>1
    <3>3. handles \in [DOMAIN handles -> Wrapper]
      BY <3>1, <3>2
    <3>4. /\ handles[1].kind = "options" /\ handles[1].rep = 0 /\ handles[1].fields = NewOptions
          /\ handles[2].kind = "db" /\ handles[2].rep = 3
          /\ handles[4].kind = "readoptions" /\ handles[4].rep = 0 /\ handles[4].fields = [snapshot |-> 0]
      BY <3>1 DEF Handle
    <3> HIDE DEF handles
    <3>5. WrappersOK(handles, 5)
      BY <3>1, <3>3, <3>4 DEF WrappersOK
    <3>6. RepsOwned(handles, {3})
      BY <3>1, <3>4 DEF RepsOwned
    <3>7. PointersOK(handles)
      BY <3>1, <3>4 DEF PointersOK, OptionsPoint, ReadOptionsPoint, NewOptions
    <3>8. DestroyedGone(handles, <<>>, 5)
      BY DEF DestroyedGone
    <3> QED
      BY <3>5, <3>6, <3>7, <3>8 DEF ObjectsInv
  <2> HIDE DEF handles, reps, none
  <2>4. capi = [handles |-> handles, reps |-> reps, strings |-> {}, held |-> {}, err |-> 0,
                ran |-> <<>>, next |-> 5, out |-> none]
    BY <2>1 DEF CapiEmpty, none
  <2>5. /\ capi.handles = handles /\ capi.reps = reps /\ capi.ran = <<>> /\ capi.next = 5
        /\ capi.strings = {} /\ capi.held = {} /\ capi.err = 0 /\ capi.out = none
    BY ONLY <2>4
  <2>6. Shaped(capi)
    BY <2>4, <2>5 DEF Shaped
  <2> QED
    BY <1>1, <1>2, <2>2, <2>3, <2>5, <2>6 DEF CapiInv, CapiOK
<1> QED
  BY <1>3, <1>4

\* What the invariant says to the client.
LEMMA CapiInvExact == CapiInv => CApiExact
<1> SUFFICES ASSUME CapiInv PROVE CApiExact
  OBVIOUS
<1>1. /\ StringsInv(capi.strings, capi.held, capi.err, capi.next) /\ ErrorTold(capi.out, capi.err) /\ AnswerTold(capi.out)
      /\ WrappersOK(capi.handles, capi.next) /\ RepsOwned(capi.handles, DOMAIN capi.reps)
      /\ PointersOK(capi.handles) /\ DestroyedGone(capi.handles, capi.ran, capi.next)
  BY DEF CapiInv, CapiOK, ObjectsInv
<1>2. StringsOwned
  BY <1>1 DEF StringsOwned, StringsInv, ErrorTold, Failed
<1>3. ObjectsOwned
  <2>1. \A r, kind : IsObject(capi.handles, r, kind) /\ r \notin {0, -1} => r \in DOMAIN capi.reps
    BY <1>1 DEF RepsOwned, IsObject
  <2>2. DOMAIN capi.reps = {H(h).rep : h \in DOMAIN capi.handles} \ {0, -1}
    BY <1>1 DEF RepsOwned, H
  <2>3. \A g, h \in DOMAIN capi.handles : H(g).rep > 0 /\ H(g).rep = H(h).rep => g = h
    BY <1>1 DEF RepsOwned, H
  <2>4. ASSUME NEW r \in Of("readoptions") PROVE H(r).fields.snapshot \in DOMAIN capi.reps \cup {0}
    <3>1. r \in DOMAIN capi.handles /\ capi.handles[r].kind = "readoptions" /\ H(r) \in ReadOptionsWrapper
      BY OfIs, OneWrapper, WrapperIs
    <3>2. H(r).fields.snapshot \in Nat /\ ReadOptionsPoint(capi.handles, H(r).fields)
      BY <1>1, <3>1 DEF PointersOK, ReadOptionsWrapper, H
    <3> QED
      BY <2>1, <3>2 DEF ReadOptionsPoint
  <2>5. ASSUME NEW o \in Of("options")
        PROVE  /\ H(o).fields.cache \in DOMAIN capi.reps \cup {0}
               /\ {H(o).fields.comparator, H(o).fields.filter} \subseteq DOMAIN capi.handles \cup {0}
    <3>1. H(o).fields \in OptionsFields /\ OptionsPoint(capi.handles, H(o).fields)
      BY OptionsAre
    <3>2. H(o).fields.cache \in Nat
      BY <3>1 DEF OptionsFields
    <3> QED
      BY <2>1, <3>1, <3>2 DEF OptionsPoint, IsWrapper
  <2>6. \A s \in DOMAIN capi.ran : capi.ran[s] = 1 /\ s \notin DOMAIN capi.handles
    BY <1>1 DEF DestroyedGone
  <2> QED
    BY <2>2, <2>3, <2>4, <2>5, <2>6 DEF ObjectsOwned
<1>4. AnswersTold
  BY <1>1 DEF AnswersTold, AnswerTold
<1> QED
  BY <1>2, <1>3, <1>4 DEF CApiExact

\* Whatever calls a client makes by the rules of c.h, on any keys and values:
\* the strings alive are the ones it holds or finds in *errptr, the C++ objects
\* alive are each inside one wrapper it has, what its options point to is
\* alive, a user's destructor has run once and only for what is gone, and a
\* missing key, an empty value and an error are told apart.
THEOREM BindingsLeakNothing == CapiSpec => []CApiExact
<1>1. CapiInv /\ [CapiNext]_capiVars => CapiInv'
  <2>1. CapiInv /\ CapiNext => CapiInv'
    BY DBCallsOK, IterCallsOK, BatchCallsOK, OptionCallsOK, ObjectCallsOK DEF CapiNext
  <2>2. CapiInv /\ UNCHANGED capiVars => CapiInv'
    BY DEF CapiInv, capiVars
  <2> QED
    BY <2>1, <2>2
<1> QED
  BY <1>1, InitCapi, CapiInvExact, PTL DEF CapiSpec
=============================================================================
