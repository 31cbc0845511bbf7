----------------------------- MODULE StatisticsProofs -----------------------------
(* The statistics log, for every size of a sector and any number of records,      *)
(* power cuts and factory resets.                                                 *)
EXTENDS Statistics, WellFoundedInduction, TLAPS

(* The log is in use: no factory reset is under way.                              *)
Logging == call \in {"idle", "erase", "program"}

Newest == Scan(page).at

(* The records are numbered in the order of their pages within a sector, and      *)
(* below the number kept in RAM.                                                  *)
Numbered == \A i \in Valids(page) : page[i].sequence =< sequence

Ordered == \A i, j \in Valids(page) :
             SectorOf(i) = SectorOf(j) /\ i < j => page[i].sequence < page[j].sequence

(* A write in progress is the next record at the next page; a sector is blank     *)
(* when the log enters it.                                                        *)
WriteNext == call \in {"erase", "program"} =>
               write = [at |-> Following(at), sequence |-> sequence + 1, count |-> count]

EntersErased ==
  /\ call = "erase" => Following(at) % PagesPerSector = 0
  /\ call = "program" /\ Following(at) % PagesPerSector = 0 =>
       \A j \in SectorOf(Following(at)) : page[j] = Blank

(* The log is in the sector of its newest record, and past it.                    *)
InSector == Logging => /\ Newest \in SectorOf(at)
                       /\ \A i \in Valids(page) \cap SectorOf(at) : i =< at

(* Past the newest record of its sector, pages are blank but for as many as       *)
(* power cuts have damaged; a factory reset leaves blank what it has erased.      *)
Spread == call # "wipe_b" =>
            \A j \in SectorOf(Newest) : Newest < j /\ page[j] # Blank => j - Newest =< damage

Wiped == /\ call = "wipe_b" => \A j \in SectorOf(0) : page[j] = Blank
         /\ call = "reboot" => \A j \in Places : page[j] = Blank

(* Every save since the restart passed one damaged page at least, as long as a    *)
(* damaged page lies at the end of the log or past it.                            *)
Passed == Logging =>
            /\ \A j \in SectorOf(at) : at =< j /\ page[j] # Blank /\ page[j].kind # "valid" =>
                                         saves + (j - at) =< damage
            /\ saves > 0 \/ at # Newest => page[at] # Blank
            /\ ~dirty /\ page[at].kind = "valid" => page[at].count = count

NumberInv == TypeOK /\ UniqueNumbers /\ Numbered /\ WriteNext
PlaceInv == NumberInv /\ Ordered /\ EntersErased /\ InSector
LogInv == PlaceInv /\ Spread /\ Wiped /\ Passed
-----------------------------------------------------------------------------------
(* Places and sectors.                                                            *)
P == PagesPerSector

LEMMA SectorFact ==
  ASSUME NEW i \in Places
  PROVE  /\ i < P => SectorOf(i) = 0..(P - 1) /\ i % P = i
         /\ i >= P => SectorOf(i) = P..(2 * P - 1) /\ i % P = i - P
<1>1. P \in Nat /\ P > 1
  BY StatisticsAssumption DEF P
<1>2. \A j \in Places : j < P => j \div P = 0 /\ j % P = j
  BY <1>1 DEF Places, P
<1>3. \A j \in Places : j >= P => j \div P = 1 /\ j % P = j - P
  BY <1>1 DEF Places, P
<1>4. CASE i < P
  <2>1. SectorOf(i) = {j \in Places : j \div P = 0}
    BY <1>2, <1>4 DEF SectorOf, P
  <2>2. \A j \in Places : j \div P = 0 <=> j < P
    BY <1>1, <1>2, <1>3 DEF Places, P
  <2>3. SectorOf(i) = {j \in Places : j < P}
    BY <2>1, <2>2
  <2>4. {j \in Places : j < P} = 0..(P - 1)
    BY <1>1 DEF Places, P
  <2> QED BY <1>1, <1>2, <1>4, <2>3, <2>4 DEF Places
<1>5. CASE i >= P
  <2>1. SectorOf(i) = {j \in Places : j \div P = 1}
    BY <1>3, <1>5 DEF SectorOf, P
  <2>2. \A j \in Places : j \div P = 1 <=> j >= P
    BY <1>1, <1>2, <1>3 DEF Places, P
  <2>3. SectorOf(i) = {j \in Places : j >= P}
    BY <2>1, <2>2
  <2>4. {j \in Places : j >= P} = P..(2 * P - 1)
    BY <1>1 DEF Places, P
  <2> QED BY <1>1, <1>3, <1>5, <2>3, <2>4 DEF Places
<1> QED BY <1>1, <1>4, <1>5 DEF Places

(* The log steps to the next page, and enters a sector from the end of the other. *)
LEMMA FollowingFact ==
  ASSUME NEW i \in Places
  PROVE  /\ Following(i) \in Places
         /\ Following(i) = IF i = 2 * P - 1 THEN 0 ELSE i + 1
         /\ Following(i) % P = 0 <=> i \in {P - 1, 2 * P - 1}
<1>1. P \in Nat /\ P > 1
  BY StatisticsAssumption DEF P
<1>2. Following(i) = IF i = 2 * P - 1 THEN 0 ELSE i + 1
  BY <1>1 DEF Following, Places, P
<1>3. Following(i) \in Places
  BY <1>1, <1>2 DEF Places, P
<1> QED BY <1>1, <1>2, <1>3, SectorFact DEF Places, P

LEMMA SectorChange ==
  ASSUME NEW i \in Places
  PROVE  IF Following(i) % PagesPerSector = 0
         THEN SectorOf(i) \cap SectorOf(Following(i)) = {}
         ELSE Following(i) = i + 1 /\ SectorOf(i) = SectorOf(Following(i))
<1>1. P \in Nat /\ P > 1 /\ PagesPerSector = P /\ Places = 0..(2 * P - 1)
  BY StatisticsAssumption DEF P, Places
<1>2. CASE i = P - 1
  <2>1. Following(i) = P /\ Following(i) % P = 0 /\ Following(i) \in Places
    <3>1. i # 2 * P - 1 /\ i + 1 = P
      BY <1>1, <1>2
    <3>2. Following(i) = i + 1
      BY <3>1, FollowingFact
    <3>3. Following(i) % P = 0
      BY <1>2, FollowingFact, Zenon
    <3> QED BY <3>1, <3>2, <3>3, FollowingFact
  <2>2. i < P /\ P >= P
    BY <1>1, <1>2
  <2>3. SectorOf(i) = 0..(P - 1) /\ SectorOf(Following(i)) = P..(2 * P - 1)
    BY <2>1, <2>2, SectorFact
  <2> QED BY <1>1, <2>1, <2>3
<1>3. CASE i = 2 * P - 1
  <2>1. Following(i) = 0 /\ Following(i) % P = 0 /\ Following(i) \in Places
    <3>1. Following(i) % P = 0
      BY <1>3, FollowingFact, Zenon
    <3> QED BY <1>3, <3>1, FollowingFact
  <2>2. i >= P /\ 0 < P
    BY <1>1, <1>3
  <2>3. SectorOf(i) = P..(2 * P - 1) /\ SectorOf(Following(i)) = 0..(P - 1)
    BY <2>1, <2>2, SectorFact
  <2> QED BY <1>1, <2>1, <2>3
<1>4. CASE i # P - 1 /\ i # 2 * P - 1
  <2>1. Following(i) = i + 1 /\ Following(i) % P # 0 /\ Following(i) \in Places
    BY <1>1, <1>4, FollowingFact
  <2>2. SectorOf(i) = SectorOf(i + 1)
    BY <1>1, <1>4, <2>1, SectorFact
  <2> QED BY <1>1, <2>1, <2>2
<1> QED BY <1>2, <1>3, <1>4

(* A set of numbers has a least one.                                              *)
LEMMA LeastFact ==
  ASSUME NEW S \in SUBSET Nat, S # {}
  PROVE  \E x \in S : \A y \in S : x =< y
<1> DEFINE R == {ss \in Nat \X Nat : ss[1] < ss[2]}
<1>1. IsWellFoundedOn(R, Nat)
  BY NatLessThanWellFounded DEF OpToRel
<1> HIDE DEF R
<1>2. PICK x \in S : \A y \in S : ~ (<<y, x>> \in R)
  BY <1>1, WFMin
<1>3. ASSUME NEW y \in S PROVE x =< y
  <2>1. x \in Nat /\ y \in Nat
    OBVIOUS
  <2>2. ~ (y < x)
    BY <1>2, <2>1 DEF R
  <2> QED BY <2>1, <2>2
<1> QED BY <1>3

(* What statistics_init finds: the newest valid record, the first of them in      *)
(* address order, and nothing in a log without any.                               *)
LEMMA ScanFact ==
  ASSUME NEW f \in [Places -> PageRecords], Valids(f) # {}
  PROVE  LET i == Scan(f).at
         IN  /\ i \in Valids(f) /\ Scan(f) = [sequence |-> f[i].sequence, count |-> f[i].count, at |-> i]
             /\ \A j \in Valids(f) : f[j].sequence =< f[i].sequence
<1> DEFINE Beats(i) ==
             \A j \in Valids(f) \ {i} : \/ f[j].sequence < f[i].sequence
                                        \/ f[j].sequence = f[i].sequence /\ i < j
           Gap(i) == MaxSequence - f[i].sequence
           Gaps == {Gap(i) : i \in Valids(f)}
<1>0. /\ MaxSequence \in Nat /\ P \in Nat /\ P > 1
      /\ \A i \in Places : f[i].sequence \in 0..MaxSequence
      /\ Valids(f) \subseteq Places
  BY StatisticsAssumption DEF PageRecords, P, Valids
<1>1. Gaps \in SUBSET Nat /\ Gaps # {}
  BY <1>0
<1>2. PICK g \in Gaps : \A h \in Gaps : g =< h
  BY <1>1, LeastFact
<1>3. PICK m \in Valids(f) : \A j \in Valids(f) : f[j].sequence =< f[m].sequence
  <2>1. PICK m \in Valids(f) : g = Gap(m)
    BY <1>2
  <2>2. ASSUME NEW j \in Valids(f) PROVE f[j].sequence =< f[m].sequence
    <3>1. Gap(m) =< Gap(j)
      BY <1>2, <2>1
    <3> QED BY <1>0, <3>1
  <2> QED BY <2>2
<1> DEFINE Tops == {i \in Valids(f) : f[i].sequence = f[m].sequence}
<1>4. Tops \in SUBSET Nat /\ Tops # {}
  BY <1>0, <1>3 DEF Places
<1>5. PICK i \in Tops : \A j \in Tops : i =< j
  BY <1>4, LeastFact
<1>6. i \in Valids(f) /\ Beats(i)
  <2>0. i \in Valids(f)
    BY <1>5
  <2> SUFFICES ASSUME NEW j \in Valids(f) \ {i}
               PROVE  f[j].sequence < f[i].sequence \/ (f[j].sequence = f[i].sequence /\ i < j)
    BY <2>0
  <2>1. f[j].sequence =< f[i].sequence /\ i \in Nat /\ j \in Nat
    BY <1>0, <1>3, <1>4, <1>5 DEF Places
  <2> QED BY <1>0, <1>5, <2>1
<1> DEFINE n == CHOOSE k \in Valids(f) : Beats(k)
<1>7. n \in Valids(f) /\ Beats(n)
  <2> HIDE DEF Beats
  <2> QED BY <1>6
<1>8. Scan(f) = [sequence |-> f[n].sequence, count |-> f[n].count, at |-> n]
  <2> QED BY Zenon DEF Scan
<1> HIDE DEF n
<1>9. Scan(f).at = n
  BY <1>8
<1> QED BY <1>0, <1>7, <1>8, <1>9

LEMMA ScanEmpty ==
  ASSUME NEW f, Valids(f) = {}
  PROVE  Scan(f) = [sequence |-> 0, count |-> 0, at |-> 0]
  BY DEF Scan

(* A valid record newer than all others is the one found.                         *)
LEMMA ScanIs ==
  ASSUME NEW f \in [Places -> PageRecords], NEW i \in Valids(f),
         \A j \in Valids(f) \ {i} : f[j].sequence < f[i].sequence
  PROVE  Scan(f) = [sequence |-> f[i].sequence, count |-> f[i].count, at |-> i]
<1>1. \A j \in Valids(f) : f[j].sequence \in Nat
  BY StatisticsAssumption DEF PageRecords, Valids
<1>2. Scan(f).at = i
  BY ScanFact, <1>1
<1> QED BY ScanFact, <1>2

LEMMA ScanType ==
  ASSUME NEW f \in [Places -> PageRecords]
  PROVE  /\ Scan(f).sequence \in 0..MaxSequence /\ Scan(f).count \in 0..MaxCount
         /\ Scan(f).at \in Places
<1>1. CASE Valids(f) = {}
  BY <1>1, ScanEmpty, StatisticsAssumption DEF Places
<1>2. CASE Valids(f) # {}
  BY <1>2, ScanFact DEF Valids, PageRecords
<1> QED BY <1>1, <1>2

-----------------------------------------------------------------------------------
(* Logs.                                                                          *)
Logs == [Places -> PageRecords]

Distinct(f) == \A i, j \in Valids(f) : f[i].sequence = f[j].sequence => i = j

InOrder(f) == \A i, j \in Valids(f) :
                SectorOf(i) = SectorOf(j) /\ i < j => f[i].sequence < f[j].sequence

Below(f, n) == \A i \in Valids(f) : f[i].sequence =< n

(* A log that has only lost records.                                              *)
Fewer(g, f) == Valids(g) \subseteq Valids(f) /\ \A i \in Valids(g) : g[i] = f[i]

LEMMA FewerFact ==
  ASSUME NEW f \in Logs, NEW g \in Logs, Fewer(g, f)
  PROVE  /\ Distinct(f) => Distinct(g)
         /\ InOrder(f) => InOrder(g)
         /\ \A n : Below(f, n) => Below(g, n)
  BY DEF Fewer, Distinct, InOrder, Below

LEMMA ErasedFact ==
  ASSUME NEW f \in Logs, NEW S
  PROVE  /\ Erased(f, S) \in Logs /\ Fewer(Erased(f, S), f)
         /\ Spoilt(f, S) \in Logs /\ Fewer(Spoilt(f, S), f)
<1>1. Blank \in PageRecords /\ Garbage \in PageRecords
  BY StatisticsAssumption DEF Blank, Garbage, PageRecords
<1>2. Blank.kind = "blank" /\ Garbage.kind = "garbage"
  BY DEF Blank, Garbage
<1> QED BY <1>1, <1>2 DEF Erased, Spoilt, Logs, Fewer, Valids

(* A page that was to be programmed holds the record, or no valid one, or what it *)
(* held.                                                                          *)
Requests == [at : Places, sequence : 0..MaxSequence, count : 0..MaxCount]

LEMMA CutFact ==
  ASSUME NEW p \in PageRecords, NEW w \in Requests, NEW q \in Cut(p, w)
  PROVE  /\ q \in PageRecords /\ Programmed(p, w) \in Cut(p, w)
         /\ q = p \/ q = As(w, "valid") \/ q.kind \in {"torn", "garbage"}
<1>1. Garbage \in PageRecords /\ Garbage.kind = "garbage"
  BY StatisticsAssumption DEF Blank, Garbage, PageRecords
<1>2. As(w, "valid") \in PageRecords /\ As(w, "torn") \in PageRecords /\ As(w, "torn").kind = "torn"
  BY DEF As, Requests, PageRecords
<1> QED BY <1>1, <1>2 DEF Cut, Programmed

Writes(g, f, w) ==
  /\ \A i \in Places : i # w.at => g[i] = f[i]
  /\ g[w.at] \in {f[w.at], As(w, "valid")} \/ g[w.at].kind \in {"torn", "garbage"}

LEMMA WrittenFact ==
  ASSUME NEW f \in Logs, NEW w \in Requests, NEW q \in Cut(f[w.at], w)
  PROVE  [f EXCEPT ![w.at] = q] \in Logs /\ Writes([f EXCEPT ![w.at] = q], f, w)
<1>1. w.at \in Places /\ f[w.at] \in PageRecords
  BY DEF Requests, Logs
<1>2. q \in PageRecords /\ (q = f[w.at] \/ q = As(w, "valid") \/ q.kind \in {"torn", "garbage"})
  BY <1>1, CutFact
<1> QED BY <1>1, <1>2 DEF Logs, Writes

(* The valid records of a log that a record was written to.                       *)
LEMMA WrittenValids ==
  ASSUME NEW f \in Logs, NEW g \in Logs, NEW w \in Requests, Writes(g, f, w),
         NEW i \in Valids(g)
  PROVE  \/ i \in Valids(f) /\ g[i] = f[i]
         \/ i = w.at /\ g[i] = As(w, "valid") /\ g[i].sequence = w.sequence
  BY DEF Writes, Valids, As

LEMMA NumberedFact ==
  ASSUME NEW f \in Logs, NEW g \in Logs, NEW w \in Requests, Writes(g, f, w),
         NEW n \in Nat, w.sequence = n + 1, Distinct(f), Below(f, n)
  PROVE  Distinct(g) /\ Below(g, n + 1)
<1>1. \A i \in Valids(g) : \/ i \in Valids(f) /\ g[i] = f[i]
                           \/ i = w.at /\ g[i].sequence = n + 1
  BY WrittenValids
<1>2. \A i \in Valids(f) : f[i].sequence \in Nat /\ f[i].sequence =< n
  BY DEF Below, Valids, Logs, PageRecords
<1>3. Distinct(g)
  <2> SUFFICES ASSUME NEW i \in Valids(g), NEW j \in Valids(g), g[i].sequence = g[j].sequence
               PROVE  i = j
    BY DEF Distinct
  <2>1. CASE i \in Valids(f) /\ g[i] = f[i] /\ j \in Valids(f) /\ g[j] = f[j]
    BY <2>1 DEF Distinct
  <2>2. CASE i = w.at /\ g[i].sequence = n + 1
    BY <1>1, <1>2, <2>2
  <2>3. CASE j = w.at /\ g[j].sequence = n + 1
    BY <1>1, <1>2, <2>3
  <2> QED BY <1>1, <2>1, <2>2, <2>3
<1>4. Below(g, n + 1)
  BY <1>1, <1>2 DEF Below
<1> QED BY <1>3, <1>4

-----------------------------------------------------------------------------------
(* Type correctness.                                                              *)
LEMMA TypeInit == Init => TypeOK
<1>1. Blank \in PageRecords /\ 0 \in Places /\ 0 \in 0..MaxSequence /\ 0 \in 0..MaxCount /\ 0 \in 0..MaxDamage
  BY StatisticsAssumption DEF PageRecords, Blank, Places
<1> SUFFICES ASSUME Init PROVE TypeOK
  OBVIOUS
<1>2. page \in [Places -> PageRecords]
  BY <1>1 DEF Init
<1>3. write \in [at : Places, sequence : 0..MaxSequence, count : 0..MaxCount]
  BY <1>1 DEF Init
<1>4. saves \in Nat /\ dirty \in BOOLEAN /\ call = "idle" /\ sequence = 0 /\ count = 0 /\ at = 0 /\ damage = 0
  BY DEF Init
<1> QED BY <1>1, <1>2, <1>3, <1>4 DEF TypeOK

LEMMA BootedFact ==
  ASSUME page' \in Logs, Booted, write \in Requests
  PROVE  /\ sequence' \in 0..MaxSequence /\ count' \in 0..MaxCount /\ at' \in Places
         /\ dirty' = FALSE /\ call' = "idle" /\ saves' = 0 /\ write' = write
         /\ sequence' = Scan(page').sequence /\ count' = Scan(page').count /\ at' = Scan(page').at
  BY ScanType DEF Booted, Logs

LEMMA HarmFact ==
  ASSUME TypeOK, NEW n \in Nat, Harm(n)
  PROVE  damage' \in 0..MaxDamage /\ damage' = damage + n
  BY StatisticsAssumption DEF TypeOK, Harm

LEMMA TypeStep == TypeOK /\ [Next]_vars => TypeOK'
<1> SUFFICES ASSUME TypeOK, [Next]_vars PROVE TypeOK'
  OBVIOUS
<1>0. /\ page \in Logs /\ write \in Requests /\ write.at \in Places /\ at \in Places
      /\ PagesPerSector \in Nat /\ MaxSequence \in Nat /\ MaxCount \in Nat
  BY StatisticsAssumption DEF TypeOK, Logs, Requests
<1>1. CASE Increment
  BY <1>1, <1>0 DEF TypeOK, Increment
<1>2. CASE Flush
  BY <1>2, <1>0 DEF TypeOK, Flush
<1>3. CASE Persist
  <2>1. Following(at) \in Places /\ sequence + 1 \in 0..MaxSequence
    BY <1>3, <1>0, FollowingFact DEF Persist, TypeOK
  <2>2. write' \in Requests /\ call' \in {"erase", "program"}
    BY <1>3, <2>1 DEF Persist, TypeOK, Requests
  <2> QED BY <1>3, <2>2 DEF TypeOK, Persist, ram, Requests
<1>4. CASE TimedOut
  BY <1>4 DEF TypeOK, TimedOut, ram
<1>5. CASE Erase
  BY <1>0, <1>5, ErasedFact DEF TypeOK, Erase, ram, Logs
<1>6. CASE Program
  <2>1. page' \in Logs
    <3>1. Programmed(page[write.at], write) \in Cut(page[write.at], write)
      BY <1>0 DEF Cut
    <3>2. page' = [page EXCEPT ![write.at] = Programmed(page[write.at], write)]
      BY <1>6 DEF Program
    <3> QED BY <1>0, <3>1, <3>2, WrittenFact
  <2>2. write.sequence \in 0..MaxSequence
    BY <1>0 DEF Requests
  <2>3. saves' \in Nat /\ call' = "idle" /\ dirty' = FALSE /\ at' \in Places
    BY <1>0, <1>6 DEF Program, TypeOK
  <2>4. sequence' \in 0..MaxSequence /\ count' = count /\ write' = write /\ damage' = damage
    BY <1>6, <2>2 DEF Program
  <2> QED BY <2>1, <2>3, <2>4 DEF TypeOK, Logs
<1>7. CASE FactoryReset
  BY <1>7 DEF TypeOK, FactoryReset, ram
<1>8. CASE Wipe(0, "wipe_a", "wipe_b")
  BY <1>0, <1>8, ErasedFact DEF TypeOK, Wipe, ram, Logs
<1>9. CASE Wipe(PagesPerSector, "wipe_b", "reboot")
  BY <1>0, <1>9, ErasedFact DEF TypeOK, Wipe, ram, Logs
<1>10. CASE Restart
  <2>1. page' = page /\ damage' = damage /\ Booted
    BY <1>10 DEF Restart
  <2>b. /\ sequence' \in 0..MaxSequence /\ count' \in 0..MaxCount /\ at' \in Places
        /\ dirty' = FALSE /\ call' = "idle" /\ saves' = 0 /\ write' = write
    BY <1>0, <2>1, BootedFact
  <2> QED BY <1>0, <2>1, <2>b DEF TypeOK, Logs
<1>11. CASE CutProgram
  <2>1. page' \in Logs /\ Booted /\ Harm(1)
    BY <1>0, <1>11, WrittenFact DEF CutProgram
  <2>b. /\ sequence' \in 0..MaxSequence /\ count' \in 0..MaxCount /\ at' \in Places
        /\ dirty' = FALSE /\ call' = "idle" /\ saves' = 0 /\ write' = write
    BY <1>0, <2>1, BootedFact
  <2>d. damage' \in 0..MaxDamage
    BY <2>1, HarmFact
  <2> QED BY <1>0, <2>1, <2>b, <2>d DEF TypeOK, Logs
<1>12. CASE CutErase
  <2>1. page' \in Logs /\ Booted
    BY <1>0, <1>12, ErasedFact DEF CutErase
  <2>2. PICK n \in Nat : Harm(n)
    BY <1>0, <1>12 DEF CutErase
  <2>b. /\ sequence' \in 0..MaxSequence /\ count' \in 0..MaxCount /\ at' \in Places
        /\ dirty' = FALSE /\ call' = "idle" /\ saves' = 0 /\ write' = write
    BY <1>0, <2>1, BootedFact
  <2>d. damage' \in 0..MaxDamage
    BY <2>2, HarmFact
  <2> QED BY <1>0, <2>1, <2>b, <2>d DEF TypeOK, Logs
<1>13. CASE UNCHANGED vars
  BY <1>13 DEF TypeOK, vars, ram
<1> QED
  BY <1>1, <1>2, <1>3, <1>4, <1>5, <1>6, <1>7, <1>8, <1>9, <1>10, <1>11, <1>12, <1>13 DEF Next

THEOREM TypeCorrect == Spec => []TypeOK
<1> QED BY TypeInit, TypeStep, PTL DEF Spec

-----------------------------------------------------------------------------------
(* No number is given twice.                                                      *)
LEMMA Asked ==
  ASSUME TypeOK
  PROVE  /\ page \in Logs /\ write \in Requests /\ write.at \in Places /\ at \in Places
         /\ sequence \in Nat /\ saves \in Nat /\ damage \in Nat
         /\ P \in Nat /\ P > 1 /\ PagesPerSector = P
         /\ (UniqueNumbers <=> Distinct(page)) /\ (Numbered <=> Below(page, sequence))
         /\ (Ordered <=> InOrder(page))
  BY StatisticsAssumption
     DEF TypeOK, Logs, Requests, P, UniqueNumbers, Distinct, Numbered, Below, Ordered, InOrder

LEMMA AskedPrime ==
  ASSUME TypeOK'
  PROVE  /\ page' \in Logs /\ write' \in Requests /\ at' \in Places
         /\ sequence' \in Nat /\ saves' \in Nat /\ damage' \in Nat
         /\ (UniqueNumbers' <=> Distinct(page')) /\ (Numbered' <=> Below(page', sequence'))
         /\ (Ordered' <=> InOrder(page'))
  BY StatisticsAssumption
     DEF TypeOK, Logs, Requests, P, UniqueNumbers, Distinct, Numbered, Below, Ordered, InOrder

(* A restart adopts the greatest number.                                          *)
LEMMA BootedBelow ==
  ASSUME page' \in Logs, Booted
  PROVE  Below(page', sequence')
<1>1. sequence' = Scan(page').sequence
  BY DEF Booted
<1>2. CASE Valids(page') = {}
  BY <1>2 DEF Below
<1>3. CASE Valids(page') # {}
  BY <1>1, <1>3, ScanFact DEF Below, Logs
<1> QED BY <1>2, <1>3

(* What the page that is programmed may hold afterwards, cut short or not.        *)
LEMMA ProgramWrites ==
  ASSUME TypeOK, Program \/ CutProgram
  PROVE  page' \in Logs /\ Writes(page', page, write)
<1>1. page \in Logs /\ write \in Requests
  BY Asked
<1>2. CASE Program
  <2>1. Programmed(page[write.at], write) \in Cut(page[write.at], write)
    BY DEF Cut
  <2>2. page' = [page EXCEPT ![write.at] = Programmed(page[write.at], write)]
    BY <1>2 DEF Program
  <2> QED BY <1>1, <2>1, <2>2, WrittenFact
<1>3. CASE CutProgram
  BY <1>1, <1>3, WrittenFact DEF CutProgram
<1> QED BY <1>2, <1>3

LEMMA NumberStep == NumberInv /\ [Next]_vars => NumberInv'
<1> SUFFICES ASSUME NumberInv, [Next]_vars PROVE NumberInv'
  OBVIOUS
<1>t. TypeOK /\ TypeOK'
  BY TypeStep DEF NumberInv
<1>0. Distinct(page) /\ Below(page, sequence) /\ WriteNext
  BY <1>t, Asked DEF NumberInv
<1> SUFFICES Distinct(page') /\ Below(page', sequence') /\ WriteNext'
  BY <1>t, AskedPrime DEF NumberInv
<1>1. CASE page' = page /\ sequence' = sequence /\ call' = "idle"
  BY <1>0, <1>1 DEF WriteNext
<1>2. CASE Increment \/ Flush \/ TimedOut
  <2>1. page' = page /\ sequence' = sequence /\ call' = "idle"
    BY <1>2 DEF Increment, Flush, TimedOut, ram
  <2> QED BY <1>1, <2>1
<1>3. CASE Persist
  BY <1>0, <1>3 DEF Persist, WriteNext, ram
<1>4. CASE Erase
  <2>1. Fewer(page', page) /\ page' \in Logs
    BY <1>t, <1>4, Asked, ErasedFact DEF Erase
  <2>2. sequence' = sequence /\ WriteNext'
    BY <1>0, <1>4 DEF Erase, WriteNext, ram
  <2> QED BY <1>t, <1>0, <2>1, <2>2, Asked, FewerFact
<1>5. CASE Program
  <2>1. page' \in Logs /\ Writes(page', page, write)
    BY <1>t, <1>5, ProgramWrites
  <2>2. write.sequence = sequence + 1 /\ sequence' = sequence + 1 /\ call' = "idle"
    BY <1>0, <1>5 DEF Program, WriteNext
  <2>3. Distinct(page') /\ Below(page', sequence + 1)
    BY <1>t, <1>0, <2>1, <2>2, Asked, NumberedFact
  <2> QED BY <2>2, <2>3 DEF WriteNext
<1>6. CASE FactoryReset
  BY <1>0, <1>6 DEF FactoryReset, WriteNext, ram
<1>7. CASE Wipe(0, "wipe_a", "wipe_b") \/ Wipe(PagesPerSector, "wipe_b", "reboot")
  <2>1. Fewer(page', page) /\ page' \in Logs
    BY <1>t, <1>7, Asked, ErasedFact DEF Wipe
  <2>2. sequence' = sequence /\ WriteNext'
    BY <1>7 DEF Wipe, WriteNext, ram
  <2> QED BY <1>t, <1>0, <2>1, <2>2, Asked, FewerFact
<1>8. CASE Restart
  <2>1. page' = page /\ Booted /\ call' = "idle"
    BY <1>8 DEF Restart, Booted
  <2> QED BY <1>t, <1>0, <2>1, AskedPrime, BootedBelow DEF WriteNext
<1>9. CASE CutProgram
  <2>1. page' \in Logs /\ Writes(page', page, write)
    BY <1>t, <1>9, ProgramWrites
  <2>2. write.sequence = sequence + 1 /\ Booted /\ call' = "idle"
    BY <1>0, <1>9 DEF CutProgram, WriteNext, Booted
  <2>3. Distinct(page')
    BY <1>t, <1>0, <2>1, <2>2, Asked, NumberedFact
  <2> QED BY <2>1, <2>2, <2>3, BootedBelow DEF WriteNext
<1>10. CASE CutErase
  <2>1. Fewer(page', page) /\ page' \in Logs /\ Booted /\ call' = "idle"
    BY <1>t, <1>10, Asked, ErasedFact DEF CutErase, Booted
  <2>2. Distinct(page')
    BY <1>t, <1>0, <2>1, Asked, FewerFact
  <2> QED BY <2>1, <2>2, BootedBelow DEF WriteNext
<1>11. CASE UNCHANGED vars
  BY <1>0, <1>11 DEF vars, ram, WriteNext
<1> QED
  BY <1>2, <1>3, <1>4, <1>5, <1>6, <1>7, <1>8, <1>9, <1>10, <1>11 DEF Next

LEMMA NumberInit == Init => NumberInv
<1> SUFFICES ASSUME Init PROVE NumberInv
  OBVIOUS
<1>1. Valids(page) = {}
  BY DEF Init, Valids, Blank
<1>2. call = "idle"
  BY DEF Init
<1> QED BY <1>1, <1>2, TypeInit DEF NumberInv, UniqueNumbers, Numbered, WriteNext

(* Two records in flash never carry the same number, whatever damaged pages,      *)
(* sector changes and interrupted factory resets leave behind.                    *)
THEOREM NumbersUnique == Spec => []UniqueNumbers
<1>1. NumberInv => UniqueNumbers
  BY DEF NumberInv
<1> QED BY NumberInit, NumberStep, <1>1, PTL DEF Spec

-----------------------------------------------------------------------------------
(* The place of the newest record.                                                *)
LEMMA SameSector ==
  ASSUME NEW i \in Places, NEW j \in Places
  PROVE  /\ i \in SectorOf(i) /\ SectorOf(i) \subseteq Places
         /\ (i \in SectorOf(j) <=> SectorOf(i) = SectorOf(j))
         /\ (i \notin SectorOf(j) => SectorOf(i) \cap SectorOf(j) = {})
  BY DEF SectorOf

LEMMA ScanLast ==
  ASSUME NEW f \in Logs, InOrder(f), NEW i \in Valids(f), i \in SectorOf(Scan(f).at)
  PROVE  i =< Scan(f).at
<1> DEFINE n == Scan(f).at
<1>1. n \in Valids(f) /\ f[i].sequence =< f[n].sequence
  BY ScanFact DEF Logs
<1>2. n \in Places /\ i \in Places /\ f[i].sequence \in Nat /\ f[n].sequence \in Nat
  BY <1>1 DEF Valids, Logs, PageRecords
<1>3. n \in Nat /\ i \in Nat
  BY <1>2, StatisticsAssumption DEF Places
<1>4. SectorOf(i) = SectorOf(n)
  BY <1>2, SameSector
<1> HIDE DEF n
<1>5. ~ (n < i)
  BY <1>1, <1>2, <1>4 DEF InOrder
<1> QED BY <1>3, <1>5 DEF n

(* Losing other records does not change what is found.                            *)
LEMMA ScanFewer ==
  ASSUME NEW f \in Logs, NEW g \in Logs, Distinct(f), Fewer(g, f),
         Valids(f) # {} => Scan(f).at \in Valids(g)
  PROVE  Scan(g) = Scan(f)
<1>1. CASE Valids(f) = {}
  BY <1>1, ScanEmpty DEF Fewer
<1>2. CASE Valids(f) # {}
  <2> DEFINE n == Scan(f).at
  <2>1. /\ n \in Valids(f) /\ Scan(f) = [sequence |-> f[n].sequence, count |-> f[n].count, at |-> n]
        /\ \A j \in Valids(f) : f[j].sequence =< f[n].sequence
    BY <1>2, ScanFact DEF Logs
  <2>2. \A j \in Valids(f) : f[j].sequence \in Nat
    BY DEF Valids, Logs, PageRecords
  <2>3. n \in Valids(g) /\ g[n] = f[n]
    BY <1>2 DEF Fewer
  <2> HIDE DEF n
  <2>4. \A j \in Valids(f) \ {n} : f[j].sequence < f[n].sequence
    BY <2>1, <2>2 DEF Distinct
  <2>5. \A j \in Valids(g) \ {n} : g[j].sequence < g[n].sequence
    BY <2>3, <2>4 DEF Fewer
  <2>6. Scan(g) = [sequence |-> g[n].sequence, count |-> g[n].count, at |-> n]
    BY <2>3, <2>5, ScanIs DEF Logs
  <2> QED BY <2>1, <2>3, <2>6
<1> QED BY <1>1, <1>2

(* Writing the next record makes it the one found, or changes nothing.            *)
LEMMA ScanWritten ==
  ASSUME NEW f \in Logs, NEW g \in Logs, NEW w \in Requests, Writes(g, f, w),
         NEW n \in Nat, w.sequence = n + 1, Distinct(f), Below(f, n), w.at \notin Valids(f)
  PROVE  \/ /\ w.at \in Valids(g) /\ g[w.at] = As(w, "valid")
            /\ Scan(g) = [sequence |-> n + 1, count |-> w.count, at |-> w.at]
         \/ w.at \notin Valids(g) /\ Scan(g) = Scan(f)
<1>0. w.at \in Places
  BY DEF Requests
<1>1. CASE w.at \in Valids(g)
  <2>1. g[w.at] = As(w, "valid")
    BY <1>1, WrittenValids
  <2>2. g[w.at].sequence = n + 1 /\ g[w.at].count = w.count
    BY <2>1 DEF As
  <2>3. \A j \in Valids(g) \ {w.at} : g[j].sequence < g[w.at].sequence
    <3> SUFFICES ASSUME NEW j \in Valids(g) \ {w.at} PROVE g[j].sequence < n + 1
      BY <2>2
    <3>1. j \in Valids(f) /\ g[j] = f[j]
      BY WrittenValids
    <3>2. f[j].sequence \in Nat
      BY <3>1 DEF Valids, Logs, PageRecords
    <3> QED BY <3>1, <3>2 DEF Below
  <2> QED BY <1>1, <2>1, <2>2, <2>3, ScanIs DEF Logs
<1>2. CASE w.at \notin Valids(g)
  <2>1. Fewer(g, f)
    BY <1>2, WrittenValids DEF Fewer
  <2>2. Valids(f) \subseteq Valids(g)
    BY DEF Valids, Writes
  <2>3. Valids(f) # {} => Scan(f).at \in Valids(g)
    BY <2>2, ScanFact DEF Logs
  <2> QED BY <1>2, <2>1, <2>3, ScanFewer
<1> QED BY <1>1, <1>2

LEMMA InOrderWritten ==
  ASSUME NEW f \in Logs, NEW g \in Logs, NEW w \in Requests, Writes(g, f, w),
         NEW n \in Nat, w.sequence = n + 1, InOrder(f), Below(f, n),
         \A i \in Valids(f) \cap SectorOf(w.at) : i < w.at
  PROVE  InOrder(g)
<1> SUFFICES ASSUME NEW i \in Valids(g), NEW j \in Valids(g), SectorOf(i) = SectorOf(j), i < j
             PROVE  g[i].sequence < g[j].sequence
  BY DEF InOrder
<1>0. i \in Places /\ j \in Places /\ w.at \in Places /\ \A k \in Places : k \in Nat
  BY StatisticsAssumption DEF Valids, Requests, Places
<1>1. \A k \in Valids(f) : f[k].sequence \in Nat /\ f[k].sequence =< n
  BY DEF Valids, Logs, PageRecords, Below
<1>2. CASE i \in Valids(f) /\ g[i] = f[i] /\ j \in Valids(f) /\ g[j] = f[j]
  BY <1>2 DEF InOrder
<1>3. CASE i \in Valids(f) /\ g[i] = f[i] /\ j = w.at /\ g[j].sequence = w.sequence
  BY <1>1, <1>3
<1>4. CASE j \in Valids(f) /\ i = w.at
  <2>1. j \in SectorOf(w.at)
    BY <1>0, <1>4, SameSector
  <2>2. j < i
    BY <1>4, <2>1
  <2> QED BY <1>0, <2>2
<1>5. CASE i = w.at /\ j = w.at
  BY <1>0, <1>5
<1> QED BY <1>2, <1>3, <1>4, <1>5, WrittenValids

(* The page to be programmed holds no valid record, and follows every valid one   *)
(* of its sector.                                                                 *)
LEMMA NextFree ==
  ASSUME PlaceInv, call = "program"
  PROVE  /\ write.at = Following(at) /\ write.sequence = sequence + 1 /\ write.count = count
         /\ write.at \notin Valids(page)
         /\ \A i \in Valids(page) \cap SectorOf(write.at) : i < write.at
         /\ \/ write.at = at + 1 /\ SectorOf(write.at) = SectorOf(at)
            \/ /\ \A j \in SectorOf(write.at) : page[j] = Blank
               /\ SectorOf(at) \cap SectorOf(write.at) = {}
<1>0. TypeOK /\ WriteNext /\ EntersErased /\ InSector
  BY DEF PlaceInv, NumberInv
<1>1. /\ at \in Places /\ write.at \in Places /\ P \in Nat /\ P > 1 /\ PagesPerSector = P
      /\ Places = 0..(2 * P - 1)
  BY <1>0, Asked DEF Places, P
<1>2. write.at = Following(at) /\ write.sequence = sequence + 1 /\ write.count = count
  BY <1>0 DEF WriteNext
<1>3. Valids(page) \subseteq Places
  BY DEF Valids
<1>4. CASE Following(at) % PagesPerSector = 0
  <2>1. SectorOf(at) \cap SectorOf(write.at) = {}
    BY <1>1, <1>2, <1>4, SectorChange
  <2>2. \A j \in SectorOf(write.at) : page[j] = Blank
    BY <1>0, <1>2, <1>4 DEF EntersErased
  <2>3. \A j \in SectorOf(write.at) : j \notin Valids(page)
    BY <2>2 DEF Valids, Blank
  <2> QED BY <1>1, <1>2, <2>1, <2>2, <2>3, SameSector
<1>5. CASE Following(at) % PagesPerSector # 0
  <2>1. write.at = at + 1 /\ SectorOf(write.at) = SectorOf(at)
    BY <1>1, <1>2, <1>5, SectorChange
  <2>3. \A i \in Valids(page) \cap SectorOf(write.at) : i =< at
    BY <1>0, <2>1 DEF InSector, Logging
  <2>4. \A i \in Valids(page) \cap SectorOf(write.at) : i < write.at
    BY <1>1, <1>3, <2>1, <2>3
  <2>5. write.at \notin Valids(page)
    BY <1>1, <2>4, SameSector
  <2> QED BY <1>2, <2>1, <2>4, <2>5
<1> QED BY <1>4, <1>5

(* Entering a sector, the log leaves its newest record in the other.              *)
LEMMA EraseKeeps ==
  ASSUME PlaceInv, call = "erase", NEW g \in Logs, Fewer(g, page),
         \A i \in Places : i \notin SectorOf(write.at) => g[i] = page[i]
  PROVE  /\ Scan(g) = Scan(page)
         /\ SectorOf(at) \cap SectorOf(write.at) = {} /\ SectorOf(Newest) = SectorOf(at)
<1>0. TypeOK /\ WriteNext /\ EntersErased /\ InSector /\ UniqueNumbers
  BY DEF PlaceInv, NumberInv
<1>1. /\ at \in Places /\ write.at \in Places /\ P \in Nat /\ P > 1 /\ PagesPerSector = P
      /\ Places = 0..(2 * P - 1) /\ page \in Logs /\ Distinct(page)
  BY <1>0, Asked DEF Places, P
<1>2. write.at = Following(at) /\ Following(at) % PagesPerSector = 0
  BY <1>0 DEF WriteNext, EntersErased
<1>4. SectorOf(at) \cap SectorOf(write.at) = {}
  BY <1>1, <1>2, SectorChange
<1>5. Newest \in SectorOf(at)
  BY <1>0 DEF InSector, Logging
<1>6. Newest \in Places /\ SectorOf(Newest) = SectorOf(at)
  BY <1>1, <1>5, SameSector
<1>7. Newest \notin SectorOf(write.at)
  BY <1>4, <1>5
<1>8. Newest \in Valids(page) => Newest \in Valids(g)
  BY <1>6, <1>7 DEF Valids
<1>9. Valids(page) # {} => Scan(page).at \in Valids(g)
  BY <1>1, <1>8, ScanFact DEF Newest, Logs
<1> QED BY <1>1, <1>4, <1>6, <1>9, ScanFewer

(* After a restart the log is at its newest record, past which no other lies.     *)
LEMMA BootedInSector ==
  ASSUME TypeOK, TypeOK', InOrder(page'), Booted
  PROVE  InSector' /\ EntersErased'
<1>1. at' = Scan(page').at /\ call' = "idle"
  BY DEF Booted
<1>2. page' \in Logs /\ at' \in Places
  BY AskedPrime
<1>3. Newest' \in SectorOf(at')
  BY <1>1, <1>2, SameSector DEF Newest
<1>4. ASSUME NEW i \in Valids(page') \cap SectorOf(at') PROVE i =< at'
  BY <1>1, <1>2, <1>4, ScanLast
<1> QED BY <1>1, <1>3, <1>4 DEF InSector, EntersErased

LEMMA ProgramPlaces ==
  ASSUME PlaceInv, TypeOK', Program \/ CutProgram
  PROVE  /\ InOrder(page')
         /\ \/ /\ write.at \in Valids(page') /\ page'[write.at] = As(write, "valid")
               /\ Scan(page') = [sequence |-> write.sequence, count |-> write.count, at |-> write.at]
            \/ write.at \notin Valids(page') /\ Scan(page') = Scan(page)
<1>0. TypeOK /\ call = "program" /\ NumberInv /\ Ordered
  BY DEF PlaceInv, NumberInv, Program, CutProgram
<1>1. page' \in Logs /\ Writes(page', page, write)
  BY <1>0, ProgramWrites
<1>2. /\ page \in Logs /\ write \in Requests /\ sequence \in Nat
      /\ Distinct(page) /\ Below(page, sequence) /\ InOrder(page)
  BY <1>0, Asked DEF NumberInv
<1>3. /\ write.sequence = sequence + 1 /\ write.at \notin Valids(page)
      /\ \A i \in Valids(page) \cap SectorOf(write.at) : i < write.at
  BY <1>0, NextFree
<1>4. InOrder(page')
  BY <1>1, <1>2, <1>3, InOrderWritten
<1> QED BY <1>1, <1>2, <1>3, <1>4, ScanWritten

(* What a cut or a finished erasure of the sector being entered leaves.           *)
LEMMA EraseShrinks ==
  ASSUME TypeOK, NEW S,
         page' = Erased(page, S) \/ \E T \in SUBSET S : page' = Spoilt(page, T)
  PROVE  /\ page' \in Logs /\ Fewer(page', page)
         /\ \A i \in Places : i \notin S => page'[i] = page[i]
<1>1. page \in Logs
  BY Asked
<1>2. CASE page' = Erased(page, S)
  BY <1>1, <1>2, ErasedFact DEF Erased
<1>3. CASE \E T \in SUBSET S : page' = Spoilt(page, T)
  <2>1. PICK T \in SUBSET S : page' = Spoilt(page, T)
    BY <1>3
  <2>2. \A i \in Places : i \notin S => page'[i] = page[i]
    BY <2>1 DEF Spoilt
  <2> QED BY <1>1, <2>1, <2>2, ErasedFact
<1> QED BY <1>2, <1>3

LEMMA PlaceStep == PlaceInv /\ [Next]_vars => PlaceInv'
<1> SUFFICES ASSUME PlaceInv, [Next]_vars PROVE PlaceInv'
  OBVIOUS
<1>n. NumberInv /\ NumberInv'
  BY NumberStep DEF PlaceInv
<1>t. TypeOK /\ TypeOK'
  BY <1>n DEF NumberInv
<1>0. /\ page \in Logs /\ at \in Places /\ write \in Requests /\ write.at \in Places
      /\ InOrder(page) /\ EntersErased /\ InSector
  BY <1>t, Asked DEF PlaceInv
<1> SUFFICES InOrder(page') /\ EntersErased' /\ InSector'
  BY <1>n, <1>t, AskedPrime DEF PlaceInv
<1>1. CASE Increment \/ Flush \/ TimedOut
  <2>1. page' = page /\ at' = at /\ call' = "idle" /\ Logging
    BY <1>1 DEF Increment, Flush, TimedOut, ram, Logging
  <2> QED BY <1>0, <2>1 DEF EntersErased, InSector, Logging, Newest
<1>2. CASE Persist
  <2>1. /\ page' = page /\ at' = at /\ Logging
        /\ call' = IF Following(at) % PagesPerSector = 0 THEN "erase" ELSE "program"
    BY <1>2 DEF Persist, ram, Logging
  <2> QED BY <1>0, <2>1 DEF EntersErased, InSector, Logging, Newest
<1>3. CASE Erase
  <2>1. call = "erase" /\ call' = "program" /\ at' = at /\ page' = Erased(page, SectorOf(write.at))
    BY <1>3 DEF Erase, ram
  <2>2. /\ page' \in Logs /\ Fewer(page', page)
        /\ \A i \in Places : i \notin SectorOf(write.at) => page'[i] = page[i]
    BY <1>t, <2>1, EraseShrinks
  <2>3. Scan(page') = Scan(page)
    BY <2>1, <2>2, EraseKeeps
  <2>4. InOrder(page')
    BY <1>0, <2>2, FewerFact
  <2>5. InSector'
    <3>1. Newest' \in SectorOf(at')
      BY <1>0, <2>1, <2>3 DEF InSector, Logging, Newest
    <3>2. \A i \in Valids(page') \cap SectorOf(at') : i =< at'
      BY <1>0, <2>1, <2>2 DEF InSector, Logging, Fewer
    <3> QED BY <3>1, <3>2 DEF InSector
  <2>6. EntersErased'
    <3>1. write.at = Following(at)
      BY <1>n, <2>1 DEF NumberInv, WriteNext
    <3>2. \A j \in SectorOf(write.at) : page'[j] = Blank
      BY <2>1 DEF Erased, SectorOf
    <3> QED BY <2>1, <3>1, <3>2 DEF EntersErased
  <2> QED BY <2>4, <2>5, <2>6
<1>4. CASE Program
  <2>1. call = "program" /\ call' = "idle" /\ at' = write.at
    BY <1>4 DEF Program
  <2>2. /\ InOrder(page')
        /\ \/ write.at \in Valids(page') /\ Scan(page').at = write.at
           \/ write.at \notin Valids(page') /\ Scan(page') = Scan(page)
    BY <1>t, <1>4, ProgramPlaces
  <2>3. Writes(page', page, write)
    BY <1>t, <1>4, ProgramWrites
  <2>4. /\ \A i \in Valids(page) \cap SectorOf(write.at) : i < write.at
        /\ \/ write.at = at + 1 /\ SectorOf(write.at) = SectorOf(at)
           \/ \A j \in SectorOf(write.at) : page[j] = Blank
    BY <2>1, NextFree
  <2>5. \A i \in Valids(page') \cap SectorOf(at') : i =< at'
    <3> SUFFICES ASSUME NEW i \in Valids(page') \cap SectorOf(write.at) PROVE i =< write.at
      BY <2>1
    <3>1. i \in Nat /\ write.at \in Nat
      BY <1>0, StatisticsAssumption DEF Valids, Places
    <3>2. i \in Valids(page) \/ i = write.at
      BY <2>3 DEF Writes, Valids
    <3> QED BY <2>4, <3>1, <3>2
  <2>6. Newest' \in SectorOf(at')
    <3>1. CASE write.at \in Valids(page') /\ Scan(page').at = write.at
      BY <1>0, <2>1, <3>1, SameSector DEF Newest
    <3>2. CASE write.at \notin Valids(page') /\ Scan(page') = Scan(page)
      <4>1. page[write.at] # Blank
        <5>1. page'[write.at] = Programmed(page[write.at], write)
          BY <1>0, <1>4 DEF Program, Logs
        <5> QED BY <1>0, <3>2, <5>1 DEF Programmed, Valids, As
      <4>2. SectorOf(write.at) = SectorOf(at)
        BY <1>0, <2>4, <4>1, SameSector
      <4>3. Newest \in SectorOf(at)
        BY <1>0, <2>1 DEF InSector, Logging
      <4> QED BY <2>1, <3>2, <4>2, <4>3 DEF Newest
    <3> QED BY <2>2, <3>1, <3>2
  <2> QED BY <2>1, <2>2, <2>5, <2>6 DEF InSector, EntersErased
<1>5. CASE FactoryReset
  BY <1>0, <1>5 DEF FactoryReset, EntersErased, InSector, Logging
<1>6. CASE Wipe(0, "wipe_a", "wipe_b") \/ Wipe(PagesPerSector, "wipe_b", "reboot")
  <2>1. Fewer(page', page) /\ page' \in Logs
    BY <1>t, <1>6, EraseShrinks DEF Wipe
  <2>2. call' \in {"wipe_b", "reboot"}
    BY <1>6 DEF Wipe
  <2> QED BY <1>0, <2>1, <2>2, FewerFact DEF EntersErased, InSector, Logging
<1>7. CASE Restart
  <2>1. page' = page /\ Booted
    BY <1>7 DEF Restart
  <2> QED BY <1>0, <1>t, <2>1, BootedInSector
<1>8. CASE CutProgram
  <2>1. Booted
    BY <1>8 DEF CutProgram
  <2>2. InOrder(page')
    BY <1>t, <1>8, ProgramPlaces
  <2> QED BY <1>t, <2>1, <2>2, BootedInSector
<1>9. CASE CutErase
  <2>1. Booted
    BY <1>9 DEF CutErase
  <2>2. page' \in Logs /\ Fewer(page', page)
    BY <1>t, <1>9, EraseShrinks DEF CutErase
  <2>3. InOrder(page')
    BY <1>0, <2>2, FewerFact
  <2> QED BY <1>t, <2>1, <2>3, BootedInSector
<1>10. CASE UNCHANGED vars
  BY <1>0, <1>10 DEF vars, ram, EntersErased, InSector, Logging, Newest
<1> QED
  BY <1>1, <1>2, <1>3, <1>4, <1>5, <1>6, <1>7, <1>8, <1>9, <1>10 DEF Next

LEMMA PlaceInit == Init => PlaceInv
<1> SUFFICES ASSUME Init PROVE PlaceInv
  OBVIOUS
<1>1. Valids(page) = {}
  BY DEF Init, Valids, Blank
<1>2. call = "idle" /\ at = 0 /\ 0 \in Places
  BY TypeInit DEF Init, TypeOK
<1>3. Newest = 0
  BY <1>1, ScanEmpty DEF Newest
<1>4. 0 \in SectorOf(0)
  BY <1>2, SameSector
<1> QED
  BY <1>1, <1>2, <1>3, <1>4, NumberInit DEF PlaceInv, Ordered, EntersErased, InSector

(* Entering a sector never erases the newest record: only a factory reset makes   *)
(* a restart go back to an older one.                                             *)
NewestKept == [][Scan(page').sequence >= Scan(page).sequence
                 \/ call \in {"wipe_a", "wipe_b"}]_vars

(* The steps keep it.                                                             *)
LEMMA NewestStep ==
  ASSUME PlaceInv, [Next]_vars
  PROVE  Scan(page').sequence >= Scan(page).sequence \/ call \in {"wipe_a", "wipe_b"}
<1>t. TypeOK /\ TypeOK' /\ WriteNext /\ Numbered
  BY TypeStep DEF PlaceInv, NumberInv
<1>0. page \in Logs /\ write.at \in Places /\ sequence \in Nat /\ Below(page, sequence)
  BY <1>t, Asked
<1>1. Scan(page).sequence \in Nat /\ Scan(page).sequence =< sequence
  <2>1. CASE Valids(page) = {}
    BY <1>0, <2>1, ScanEmpty
  <2>2. CASE Valids(page) # {}
    <3>1. Scan(page).sequence = page[Newest].sequence /\ Newest \in Valids(page)
      BY <1>0, <2>2, ScanFact DEF Newest, Logs
    <3> QED BY <1>0, <3>1, ScanType DEF Below, Logs
  <2> QED BY <2>1, <2>2
<1>2. CASE page' = page
  BY <1>1, <1>2
<1>3. CASE Scan(page') = Scan(page)
  BY <1>1, <1>3
<1>4. CASE Increment \/ Flush \/ Persist \/ TimedOut \/ FactoryReset \/ Restart \/ UNCHANGED vars
  BY <1>2, <1>4 DEF Increment, Flush, Persist, TimedOut, FactoryReset, Restart, vars
<1>5. CASE Erase \/ (CutErase /\ call = "erase")
  <2>1. call = "erase"
    BY <1>5 DEF Erase
  <2>2. \/ page' = Erased(page, SectorOf(write.at))
        \/ \E T \in SUBSET SectorOf(write.at) : page' = Spoilt(page, T)
    BY <1>5 DEF Erase, CutErase
  <2>3. /\ page' \in Logs /\ Fewer(page', page)
        /\ \A i \in Places : i \notin SectorOf(write.at) => page'[i] = page[i]
    BY <1>t, <2>2, EraseShrinks
  <2>4. Scan(page') = Scan(page)
    BY <2>1, <2>3, EraseKeeps
  <2> QED BY <1>3, <2>4
<1>6. CASE Program \/ CutProgram
  <2>1. call = "program"
    BY <1>6 DEF Program, CutProgram
  <2>2. write.sequence = sequence + 1
    BY <1>t, <2>1 DEF WriteNext
  <2>3. Scan(page').sequence = write.sequence \/ Scan(page') = Scan(page)
    BY <1>t, <1>6, ProgramPlaces
  <2> QED BY <1>0, <1>1, <1>3, <2>2, <2>3
<1>7. CASE Wipe(0, "wipe_a", "wipe_b") \/ Wipe(PagesPerSector, "wipe_b", "reboot")
  BY <1>7 DEF Wipe
<1>8. CASE CutErase /\ call # "erase"
  BY <1>8 DEF CutErase
<1> QED BY <1>4, <1>5, <1>6, <1>7, <1>8 DEF Next

(* No step makes a restart go back, a factory reset excepted.                     *)
THEOREM NewestRecordKept == Spec => NewestKept
<1>1. PlaceInv /\ [Next]_vars =>
        [Scan(page').sequence >= Scan(page).sequence \/ call \in {"wipe_a", "wipe_b"}]_vars
  BY NewestStep
<1>2. Spec => []PlaceInv
  BY PlaceInit, PlaceStep, PTL DEF Spec
<1> QED BY <1>1, <1>2, PTL DEF Spec, NewestKept

-----------------------------------------------------------------------------------
(* What is saved is found again.                                                  *)
SpreadIn(f, d) ==
  \A j \in SectorOf(Scan(f).at) : Scan(f).at < j /\ f[j] # Blank => j - Scan(f).at =< d

HealInv == Spread /\ Wiped /\ Passed

LEMMA PlaceNumbers ==
  ASSUME NEW i \in Places, NEW j \in SectorOf(i)
  PROVE  j \in Places /\ i \in Nat /\ j \in Nat
  BY StatisticsAssumption DEF SectorOf, Places

LEMMA BootedHeals ==
  ASSUME TypeOK', Booted, SpreadIn(page', damage')
  PROVE  HealInv'
<1>1. /\ at' = Scan(page').at /\ count' = Scan(page').count
      /\ call' = "idle" /\ saves' = 0
  BY DEF Booted
<1>2. page' \in Logs /\ at' \in Places /\ damage' \in Nat
  BY AskedPrime
<1>3. Spread' /\ Wiped'
  BY <1>1 DEF Spread, SpreadIn, Newest, Wiped
<1>4. ASSUME NEW j \in SectorOf(at'), at' =< j, page'[j] # Blank
      PROVE  saves' + (j - at') =< damage'
  <2>1. j \in Nat /\ at' \in Nat
    BY <1>2, PlaceNumbers
  <2>2. CASE j = at'
    BY <1>1, <1>2, <2>1, <2>2
  <2>3. CASE at' < j
    BY <1>1, <1>2, <1>4, <2>1, <2>3 DEF SpreadIn
  <2> QED BY <1>4, <2>1, <2>2, <2>3
<1>5. page'[at'].kind = "valid" => page'[at'].count = count'
  <2> SUFFICES ASSUME page'[at'].kind = "valid" PROVE page'[at'].count = count'
    OBVIOUS
  <2>1. Valids(page') # {}
    BY <1>2 DEF Valids
  <2> QED BY <1>1, <1>2, <2>1, ScanFact DEF Logs
<1>6. Passed'
  BY <1>1, <1>4, <1>5 DEF Passed, Newest
<1> QED BY <1>3, <1>6 DEF HealInv

(* The page just written, if it holds no valid record, was damaged before, in the *)
(* sector the log is in.                                                          *)
LEMMA ProgramDamaged ==
  ASSUME PlaceInv, Program, write.at \notin Valids(page')
  PROVE  /\ page[write.at] # Blank /\ page[write.at].kind # "valid" /\ page'[write.at] # Blank
         /\ write.at = at + 1 /\ SectorOf(write.at) = SectorOf(at)
<1>0. TypeOK /\ call = "program"
  BY DEF PlaceInv, NumberInv, Program
<1>1. page \in Logs /\ write.at \in Places
  BY <1>0, Asked
<1>2. page'[write.at] = Programmed(page[write.at], write)
  BY <1>1 DEF Program, Logs
<1>3. page[write.at] # Blank /\ page'[write.at] = Garbage
  BY <1>1, <1>2 DEF Programmed, Valids, As
<1>4. /\ write.at \notin Valids(page)
      /\ \/ write.at = at + 1 /\ SectorOf(write.at) = SectorOf(at)
         \/ \A j \in SectorOf(write.at) : page[j] = Blank
  BY <1>0, NextFree
<1>5. write.at \in SectorOf(write.at) /\ page[write.at].kind # "valid"
  BY <1>1, <1>4, SameSector DEF Valids
<1>6. Garbage # Blank
  BY DEF Garbage, Blank
<1> QED BY <1>3, <1>4, <1>5, <1>6

(* In use, the log is past its newest record, and the pages between are damaged.  *)
LEMMA NewestBehind ==
  ASSUME PlaceInv, HealInv, Logging
  PROVE  /\ Newest \in SectorOf(at) /\ SectorOf(Newest) = SectorOf(at) /\ Newest \in Places
         /\ Newest =< at /\ at - Newest =< damage
<1>0. TypeOK /\ InSector /\ Spread /\ Passed /\ page \in Logs /\ at \in Places /\ damage \in Nat
  BY Asked DEF PlaceInv, NumberInv, HealInv
<1>1. Newest \in SectorOf(at) /\ SectorOf(Newest) = SectorOf(at) /\ Newest \in Places
  BY <1>0, SameSector, PlaceNumbers DEF InSector
<1>2. Newest \in Nat /\ at \in Nat /\ at \in SectorOf(Newest)
  BY <1>0, <1>1, PlaceNumbers, SameSector
<1>3. Newest =< at
  <2>1. CASE Valids(page) = {}
    BY <1>2, <2>1, ScanEmpty DEF Newest
  <2>2. CASE Valids(page) # {}
    <3>1. Newest \in Valids(page)
      BY <1>0, <2>2, ScanFact DEF Newest, Logs
    <3> QED BY <1>0, <1>1, <3>1 DEF InSector
  <2> QED BY <2>1, <2>2
<1>4. at - Newest =< damage
  <2>1. CASE at = Newest
    BY <1>0, <1>2, <2>1
  <2>2. CASE at # Newest
    <3>1. page[at] # Blank /\ Newest < at /\ call # "wipe_b"
      BY <1>0, <1>2, <1>3, <2>2 DEF Passed, Logging
    <3> QED BY <1>0, <1>2, <3>1 DEF Spread
  <2> QED BY <2>1, <2>2
<1> QED BY <1>1, <1>3, <1>4

LEMMA ProgramHeals ==
  ASSUME PlaceInv, HealInv, Program, TypeOK'
  PROVE  HealInv'
<1>0. /\ TypeOK /\ call = "program" /\ call' = "idle" /\ Logging /\ Spread /\ Passed
      /\ at' = write.at /\ saves' = saves + 1 /\ damage' = damage /\ count' = count
  BY DEF PlaceInv, NumberInv, HealInv, Program, Logging
<1>1. /\ page \in Logs /\ write.at \in Places /\ at \in Places /\ saves \in Nat /\ damage \in Nat
      /\ page' \in Logs /\ Writes(page', page, write)
  BY <1>0, Asked, ProgramWrites
<1>2. /\ Newest \in Places /\ Newest \in Nat /\ at \in Nat /\ write.at \in Nat
      /\ SectorOf(Newest) = SectorOf(at) /\ Newest =< at
  BY <1>0, <1>1, NewestBehind, PlaceNumbers, SameSector
<1>3. /\ \A j \in SectorOf(at) : Newest < j /\ page[j] # Blank => j - Newest =< damage
      /\ \A j \in SectorOf(at) : at =< j /\ page[j] # Blank /\ page[j].kind # "valid" =>
                                   saves + (j - at) =< damage
  BY <1>0, <1>2 DEF Spread, Passed
<1>4. write.count = count
  BY <1>0, NextFree
<1> SUFFICES Spread' /\ Passed'
  BY <1>0 DEF HealInv, Wiped
<1>5. CASE write.at \in Valids(page')
  <2>1. page'[write.at] = As(write, "valid") /\ Scan(page').at = write.at
    BY <1>0, <1>5, ProgramPlaces
  <2>2. \A j \in SectorOf(write.at) : write.at < j /\ page'[j] # Blank =>
          /\ page[j] # Blank /\ page'[j] = page[j]
          /\ write.at = at + 1 /\ j \in SectorOf(at)
    <3> SUFFICES ASSUME NEW j \in SectorOf(write.at), write.at < j, page'[j] # Blank
                 PROVE  /\ page[j] # Blank /\ page'[j] = page[j]
                        /\ write.at = at + 1 /\ j \in SectorOf(at)
      OBVIOUS
    <3>1. j \in Places /\ j \in Nat
      BY <1>1, PlaceNumbers
    <3>2. page'[j] = page[j]
      BY <1>1, <1>2, <3>1 DEF Writes
    <3> QED BY <1>0, <3>2, NextFree
  <2>3. Spread'
    <3> SUFFICES ASSUME NEW j \in SectorOf(write.at), write.at < j, page'[j] # Blank
                 PROVE  j - write.at =< damage
      BY <1>0, <2>1 DEF Spread, Newest
    <3>1. j \in Nat /\ page[j] # Blank /\ write.at = at + 1 /\ j \in SectorOf(at)
      BY <1>1, <2>2, PlaceNumbers
    <3>2. Newest < j
      BY <1>2, <3>1
    <3> QED BY <1>1, <1>2, <1>3, <3>1, <3>2
  <2>4. Passed'
    <3>1. page'[write.at].kind = "valid" /\ page'[write.at].count = count /\ page'[write.at] # Blank
      BY <1>4, <2>1 DEF As, Blank
    <3>2. ASSUME NEW j \in SectorOf(write.at), write.at =< j, page'[j] # Blank, page'[j].kind # "valid"
          PROVE  (saves + 1) + (j - write.at) =< damage
      <4>1. j \in Nat /\ write.at < j
        BY <1>1, <1>2, <3>1, <3>2, PlaceNumbers
      <4>2. /\ page[j] # Blank /\ page[j].kind # "valid"
            /\ write.at = at + 1 /\ j \in SectorOf(at)
        BY <2>2, <3>2, <4>1
      <4> QED BY <1>1, <1>2, <1>3, <4>1, <4>2
    <3> QED BY <1>0, <3>1, <3>2 DEF Passed
  <2> QED BY <2>3, <2>4
<1>6. CASE write.at \notin Valids(page')
  <2>1. Scan(page') = Scan(page)
    BY <1>0, <1>6, ProgramPlaces
  <2>2. /\ page[write.at] # Blank /\ page[write.at].kind # "valid" /\ page'[write.at] # Blank
        /\ write.at = at + 1 /\ SectorOf(write.at) = SectorOf(at)
    BY <1>6, ProgramDamaged
  <2>3. \A j \in SectorOf(at) : page'[j] # Blank => page[j] # Blank
    BY <1>1, <2>2, PlaceNumbers DEF Writes
  <2>4. Spread'
    <3> SUFFICES ASSUME NEW j \in SectorOf(at), Newest < j, page'[j] # Blank
                 PROVE  j - Newest =< damage
      BY <1>0, <1>2, <2>1 DEF Spread, Newest
    <3> QED BY <1>3, <2>3
  <2>5. Passed'
    <3>1. page'[write.at].kind # "valid"
      BY <1>1, <1>6 DEF Valids
    <3>2. ASSUME NEW j \in SectorOf(at), write.at =< j, page'[j] # Blank, page'[j].kind # "valid"
          PROVE  (saves + 1) + (j - write.at) =< damage
      <4>1. j \in Nat /\ j \in Places /\ at =< j
        BY <1>1, <1>2, <2>2, <3>2, PlaceNumbers
      <4>2. page[j] # Blank /\ page[j].kind # "valid"
        BY <1>1, <2>2, <2>3, <3>2, <4>1 DEF Writes
      <4> QED BY <1>1, <1>2, <1>3, <2>2, <4>1, <4>2
    <3> QED BY <1>0, <2>2, <3>1, <3>2 DEF Passed
  <2> QED BY <2>4, <2>5
<1> QED BY <1>5, <1>6

LEMMA CutProgramSpread ==
  ASSUME PlaceInv, HealInv, CutProgram, TypeOK'
  PROVE  SpreadIn(page', damage')
<1>0. TypeOK /\ call = "program" /\ Logging /\ Spread
  BY DEF PlaceInv, NumberInv, HealInv, CutProgram, Logging
<1>1. /\ page \in Logs /\ write.at \in Places /\ at \in Places /\ damage \in Nat
      /\ page' \in Logs /\ Writes(page', page, write)
  BY <1>0, Asked, ProgramWrites
<1>d. damage' = damage + 1
  BY <1>0, HarmFact DEF CutProgram
<1>2. /\ Newest \in Places /\ Newest \in Nat /\ at \in Nat /\ write.at \in Nat
      /\ SectorOf(Newest) = SectorOf(at) /\ Newest =< at /\ at - Newest =< damage
  BY <1>0, <1>1, NewestBehind, PlaceNumbers, SameSector
<1>3. \A j \in SectorOf(at) : Newest < j /\ page[j] # Blank => j - Newest =< damage
  BY <1>0, <1>2 DEF Spread
<1>4. \/ write.at = at + 1 /\ SectorOf(write.at) = SectorOf(at)
      \/ /\ \A j \in SectorOf(write.at) : page[j] = Blank
         /\ SectorOf(at) \cap SectorOf(write.at) = {}
  BY <1>0, NextFree
<1>5. CASE write.at \in Valids(page')
  <2>1. Scan(page').at = write.at
    BY <1>0, <1>5, ProgramPlaces
  <2> SUFFICES ASSUME NEW j \in SectorOf(write.at), write.at < j, page'[j] # Blank
               PROVE  j - write.at =< damage'
    BY <2>1 DEF SpreadIn
  <2>2. j \in Places /\ j \in Nat
    BY <1>1, PlaceNumbers
  <2>3. page'[j] = page[j]
    BY <1>1, <1>2, <2>2 DEF Writes
  <2>4. write.at = at + 1 /\ j \in SectorOf(at)
    BY <1>4, <2>3
  <2>5. Newest < j
    BY <1>2, <2>2, <2>4
  <2>6. j - Newest =< damage
    BY <1>3, <2>3, <2>4, <2>5
  <2> QED BY <1>1, <1>2, <1>d, <2>2, <2>4, <2>6
<1>6. CASE write.at \notin Valids(page')
  <2>1. Scan(page').at = Newest
    BY <1>0, <1>6, ProgramPlaces DEF Newest
  <2> SUFFICES ASSUME NEW j \in SectorOf(at), Newest < j, page'[j] # Blank
               PROVE  j - Newest =< damage'
    BY <1>2, <2>1 DEF SpreadIn
  <2>2. j \in Places /\ j \in Nat
    BY <1>1, PlaceNumbers
  <2>3. CASE j = write.at
    <3>1. j = at + 1
      BY <1>1, <1>4, <2>3, SameSector
    <3> QED BY <1>1, <1>2, <1>d, <3>1
  <2>4. CASE j # write.at
    <3>1. page'[j] = page[j]
      BY <1>1, <2>2, <2>4 DEF Writes
    <3>2. j - Newest =< damage
      BY <1>3, <3>1
    <3> QED BY <1>1, <1>2, <1>d, <2>2, <3>2
  <2> QED BY <2>3, <2>4
<1> QED BY <1>5, <1>6

(* A cut erasure spares the sector of the newest record, or counts for all pages  *)
(* of a sector.                                                                   *)
LEMMA CutEraseSpread ==
  ASSUME PlaceInv, HealInv, CutErase, TypeOK'
  PROVE  SpreadIn(page', damage')
<1>0. TypeOK /\ Spread /\ P \in Nat /\ P > 1 /\ PagesPerSector = P /\ damage \in Nat
  BY Asked DEF PlaceInv, NumberInv, HealInv
<1>1. page' \in Logs /\ at \in Places /\ write.at \in Places
  BY <1>0, Asked, AskedPrime
<1>2. CASE call = "erase"
  <2>1. \E T \in SUBSET SectorOf(write.at) : page' = Spoilt(page, T)
    BY <1>2 DEF CutErase
  <2>2. damage' = damage
    BY <1>0, <1>2, HarmFact DEF CutErase
  <2>3. /\ Fewer(page', page)
        /\ \A i \in Places : i \notin SectorOf(write.at) => page'[i] = page[i]
    BY <1>0, <2>1, EraseShrinks
  <2>4. /\ Scan(page') = Scan(page)
        /\ SectorOf(at) \cap SectorOf(write.at) = {} /\ SectorOf(Newest) = SectorOf(at)
    BY <1>1, <1>2, <2>3, EraseKeeps
  <2> SUFFICES ASSUME NEW j \in SectorOf(Newest), Newest < j, page'[j] # Blank
               PROVE  j - Newest =< damage
    BY <2>2, <2>4 DEF SpreadIn, Newest
  <2>5. page'[j] = page[j]
    BY <1>1, <2>3, <2>4, PlaceNumbers
  <2> QED BY <1>0, <1>2, <2>5 DEF Spread
<1>3. CASE call # "erase"
  <2>1. damage' = damage + P
    BY <1>0, <1>3, HarmFact DEF CutErase
  <2> DEFINE n == Scan(page').at
  <2>2. n \in Places
    BY <1>1, ScanType DEF Logs
  <2> SUFFICES ASSUME NEW j \in SectorOf(n) PROVE j - n =< damage'
    BY DEF SpreadIn
  <2> HIDE DEF n
  <2>3. j - n =< P
    BY <1>0, <2>2, SectorFact, PlaceNumbers
  <2>4. n \in Nat /\ j \in Nat
    BY <2>2, PlaceNumbers
  <2> QED BY <1>0, <2>1, <2>3, <2>4
<1> QED BY <1>2, <1>3

LEMMA HealStep == LogInv /\ [Next]_vars => LogInv'
<1> SUFFICES ASSUME LogInv, [Next]_vars PROVE HealInv'
  BY PlaceStep DEF LogInv, HealInv
<1>p. PlaceInv /\ PlaceInv' /\ HealInv /\ Spread /\ Wiped /\ Passed
  BY PlaceStep DEF LogInv, HealInv
<1>t. TypeOK /\ TypeOK'
  BY <1>p DEF PlaceInv, NumberInv
<1>1. CASE Increment \/ Flush
  <2>1. /\ page' = page /\ at' = at /\ call' = "idle" /\ call = "idle"
        /\ saves' = saves /\ damage' = damage /\ dirty' = TRUE
    BY <1>1 DEF Increment, Flush
  <2> QED BY <1>p, <2>1 DEF HealInv, Spread, Wiped, Passed, Logging, Newest
<1>2. CASE Persist \/ TimedOut
  <2>1. /\ page' = page /\ at' = at /\ Logging /\ Logging' /\ call # "wipe_b"
        /\ saves' = saves /\ damage' = damage /\ dirty' = dirty /\ count' = count
    BY <1>2 DEF Persist, TimedOut, ram, Logging
  <2> QED BY <1>p, <2>1 DEF HealInv, Spread, Wiped, Passed, Logging, Newest
<1>3. CASE Erase
  <2>1. /\ call = "erase" /\ call' = "program" /\ Logging /\ page' = Erased(page, SectorOf(write.at))
        /\ at' = at /\ saves' = saves /\ damage' = damage /\ dirty' = dirty /\ count' = count
    BY <1>3 DEF Erase, ram, Logging
  <2>2. /\ page' \in Logs /\ Fewer(page', page)
        /\ \A i \in Places : i \notin SectorOf(write.at) => page'[i] = page[i]
    BY <1>t, <2>1, EraseShrinks
  <2>3. /\ Scan(page') = Scan(page)
        /\ SectorOf(at) \cap SectorOf(write.at) = {} /\ SectorOf(Newest) = SectorOf(at)
    BY <1>p, <2>1, <2>2, EraseKeeps
  <2>4. at \in Places /\ at \in SectorOf(at)
    BY <1>t, Asked, SameSector
  <2>5. \A i \in SectorOf(at) : page'[i] = page[i]
    BY <2>2, <2>3, <2>4, PlaceNumbers
  <2>6. Newest' = Newest
    BY <2>3 DEF Newest
  <2>7. Spread'
    BY <1>p, <2>1, <2>3, <2>5, <2>6 DEF Spread
  <2>8. Passed'
    BY <1>p, <2>1, <2>4, <2>5, <2>6 DEF Passed
  <2> QED BY <2>1, <2>7, <2>8 DEF HealInv, Wiped
<1>4. CASE Program
  BY <1>p, <1>t, <1>4, ProgramHeals
<1>5. CASE FactoryReset
  BY <1>p, <1>5 DEF FactoryReset, HealInv, Spread, Wiped, Passed, Logging, Newest
<1>6. CASE Wipe(0, "wipe_a", "wipe_b")
  <2>1. call' = "wipe_b" /\ page' = Erased(page, SectorOf(0))
    BY <1>6 DEF Wipe
  <2>2. \A j \in SectorOf(0) : page'[j] = Blank
    BY <2>1 DEF Erased, SectorOf
  <2> QED BY <2>1, <2>2 DEF HealInv, Spread, Wiped, Passed, Logging
<1>7. CASE Wipe(PagesPerSector, "wipe_b", "reboot")
  <2>1. call = "wipe_b" /\ call' = "reboot" /\ page' = Erased(page, SectorOf(PagesPerSector))
    BY <1>7 DEF Wipe
  <2>2. /\ P \in Nat /\ P > 1 /\ PagesPerSector = P /\ Places = 0..(2 * P - 1)
    BY <1>t, Asked DEF Places, P
  <2>3. Places = SectorOf(0) \cup SectorOf(PagesPerSector)
    <3>1. 0 \in Places /\ P \in Places /\ 0 < P /\ P >= P
      BY <2>2
    <3>2. SectorOf(0) = 0..(P - 1) /\ SectorOf(P) = P..(2 * P - 1)
      BY <3>1, SectorFact
    <3> QED BY <2>2, <3>2
  <2>4. \A j \in Places : page'[j] = Blank
    BY <1>p, <2>1, <2>3 DEF Erased, Wiped
  <2>5. page' \in Logs
    BY <1>t, AskedPrime
  <2>6. Newest' \in Places
    BY <2>5, ScanType DEF Newest, Logs
  <2>7. Spread'
    BY <2>4, <2>6, SameSector DEF Spread
  <2> QED BY <2>1, <2>4, <2>7 DEF HealInv, Wiped, Passed, Logging
<1>8. CASE Restart
  <2>1. page' = page /\ damage' = damage /\ Booted /\ call # "wipe_b"
    BY <1>8 DEF Restart
  <2>2. SpreadIn(page', damage')
    BY <1>p, <2>1 DEF Spread, SpreadIn, Newest
  <2> QED BY <1>t, <2>1, <2>2, BootedHeals
<1>9. CASE CutProgram
  BY <1>p, <1>t, <1>9, CutProgramSpread, BootedHeals DEF CutProgram
<1>10. CASE CutErase
  BY <1>p, <1>t, <1>10, CutEraseSpread, BootedHeals DEF CutErase
<1>11. CASE UNCHANGED vars
  BY <1>p, <1>11 DEF vars, ram, HealInv, Spread, Wiped, Passed, Logging, Newest
<1> QED
  BY <1>1, <1>2, <1>3, <1>4, <1>5, <1>6, <1>7, <1>8, <1>9, <1>10, <1>11 DEF Next

LEMMA HealInit == Init => LogInv
<1> SUFFICES ASSUME Init PROVE LogInv
  OBVIOUS
<1>1. Valids(page) = {}
  BY DEF Init, Valids, Blank
<1>2. /\ call = "idle" /\ at = 0 /\ 0 \in Places /\ saves = 0 /\ damage = 0 /\ page[0] = Blank
      /\ \A j \in Places : page[j] = Blank
  BY TypeInit DEF Init, TypeOK
<1>3. Newest = 0 /\ SectorOf(0) \subseteq Places
  BY <1>1, <1>2, ScanEmpty, SameSector DEF Newest
<1>4. page[at].kind = "blank"
  BY <1>2 DEF Blank
<1> QED BY <1>2, <1>3, <1>4, PlaceInit DEF LogInv, Spread, Wiped, Passed

(* The invariant says what DamageHeals says: with no damaged page at the end of   *)
(* the log, its end is the newest record.                                         *)
LEMMA HealFinal == LogInv => DamageHeals
<1> SUFFICES ASSUME LogInv, call = "idle", ~dirty, saves > damage
             PROVE  Scan(page).count = count
  BY DEF DamageHeals
<1>0. PlaceInv /\ HealInv /\ Logging /\ Passed /\ TypeOK /\ InSector /\ Ordered
  BY DEF LogInv, PlaceInv, NumberInv, HealInv, Logging
<1>1. page \in Logs /\ at \in Places /\ saves \in Nat /\ damage \in Nat /\ at \in SectorOf(at) /\ at \in Nat
  BY <1>0, Asked, SameSector, PlaceNumbers
<1>2. saves > 0 /\ saves + (at - at) = saves
  BY <1>1
<1>3. page[at].kind = "valid"
  <2>1. page[at] # Blank
    BY <1>0, <1>2 DEF Passed
  <2>2. ~(saves + (at - at) =< damage)
    BY <1>1, <1>2
  <2>3. at =< at
    BY <1>1
  <2> QED BY <1>0, <1>1, <2>1, <2>2, <2>3 DEF Passed
<1>4. page[at].count = count
  BY <1>0, <1>3 DEF Passed
<1>5. at \in Valids(page) /\ InOrder(page)
  BY <1>0, <1>1, <1>3, Asked DEF Valids
<1>6. Newest \in Nat /\ Newest =< at /\ at \in SectorOf(Newest)
  BY <1>0, <1>1, NewestBehind, PlaceNumbers
<1>7. at =< Newest
  BY <1>1, <1>5, <1>6, ScanLast DEF Newest
<1>8. Newest = at
  BY <1>1, <1>6, <1>7
<1> QED BY <1>1, <1>4, <1>5, <1>8, ScanFact DEF Newest, Logs

(* What statistics_persist reported saved survives a restart once it has saved    *)
(* more records since the last restart than power cuts ever damaged pages.        *)
THEOREM SavedIsFound == Spec => []DamageHeals
<1> QED BY HealInit, HealStep, HealFinal, PTL DEF Spec

-----------------------------------------------------------------------------------
(* The log implements the durable count.                                          *)
Held(f) == {Record(f[i]) : i \in Valids(f)}

LEMMA RecordFact ==
  ASSUME NEW f \in Logs, NEW i \in Valids(f)
  PROVE  /\ Record(f[i]).sequence = f[i].sequence /\ f[i].sequence \in Nat
         /\ Record(f[i]) \in Held(f)
  BY StatisticsAssumption DEF Record, Held, Logs, PageRecords, Valids

(* The newest of the records that are held is the one a restart finds.            *)
LEMMA NewestHeld ==
  ASSUME NEW f \in Logs, Distinct(f)
  PROVE  Durable!Newest(Held(f)) = [sequence |-> Scan(f).sequence, count |-> Scan(f).count]
<1>1. CASE Valids(f) = {}
  <2>1. Held(f) = {}
    BY <1>1 DEF Held
  <2> QED BY <1>1, <2>1, ScanEmpty DEF Durable!Newest
<1>2. CASE Valids(f) # {}
  <2> DEFINE n == Scan(f).at
             Tops(r) == \A q \in Held(f) : q.sequence =< r.sequence
  <2>1. /\ n \in Valids(f) /\ Scan(f) = [sequence |-> f[n].sequence, count |-> f[n].count, at |-> n]
        /\ \A j \in Valids(f) : f[j].sequence =< f[n].sequence
    BY <1>2, ScanFact DEF Logs
  <2> HIDE DEF n
  <2>2. Record(f[n]) \in Held(f) /\ Tops(Record(f[n]))
    BY <2>1, RecordFact DEF Held
  <2>3. ASSUME NEW r \in Held(f), Tops(r) PROVE r = Record(f[n])
    <3>1. PICK j \in Valids(f) : r = Record(f[j])
      BY DEF Held
    <3>2. f[n].sequence =< f[j].sequence /\ f[j].sequence =< f[n].sequence
      BY <2>1, <2>2, <2>3, <3>1, RecordFact
    <3>3. f[j].sequence = f[n].sequence
      BY <2>1, <3>2, RecordFact
    <3> QED BY <2>1, <3>1, <3>3 DEF Distinct
  <2>4. Held(f) # {} /\ Durable!Newest(Held(f)) = CHOOSE r \in Held(f) : Tops(r)
    BY <2>2, Zenon DEF Durable!Newest
  <2> HIDE DEF Tops
  <2>5. Durable!Newest(Held(f)) = Record(f[n])
    BY <2>2, <2>3, <2>4
  <2> QED BY <2>1, <2>5 DEF Record
<1> QED BY <1>1, <1>2

(* What losing records, and writing one, does to the records that are held.       *)
LEMMA FewerHeld ==
  ASSUME NEW f \in Logs, NEW g \in Logs, Fewer(g, f)
  PROVE  Held(g) \subseteq Held(f)
  BY DEF Fewer, Held

LEMMA WrittenHeld ==
  ASSUME NEW f \in Logs, NEW g \in Logs, NEW w \in Requests, Writes(g, f, w), w.at \notin Valids(f)
  PROVE  /\ w.at \in Valids(g) => Held(g) = Held(f) \cup {Record(w)}
         /\ w.at \notin Valids(g) => Held(g) = Held(f)
<1>1. \A i \in Valids(g) : (i \in Valids(f) /\ g[i] = f[i]) \/ (i = w.at /\ g[i] = As(w, "valid"))
  BY WrittenValids
<1>2. \A i \in Valids(f) : i \in Valids(g) /\ g[i] = f[i]
  BY DEF Writes, Valids
<1>3. Record(As(w, "valid")) = Record(w)
  BY DEF Record, As
<1>4. CASE w.at \in Valids(g)
  <2>1. g[w.at] = As(w, "valid")
    BY <1>1, <1>4
  <2>2. Record(w) \in Held(g)
    BY <1>3, <1>4, <2>1 DEF Held
  <2>3. Held(f) \subseteq Held(g)
    BY <1>2 DEF Held
  <2>4. Held(g) \subseteq Held(f) \cup {Record(w)}
    BY <1>1, <1>3 DEF Held
  <2> QED BY <1>4, <2>2, <2>3, <2>4
<1>5. CASE w.at \notin Valids(g)
  BY <1>1, <1>2, <1>5 DEF Held
<1> QED BY <1>4, <1>5

(* Where a call in progress stands, for the durable count.                        *)
Writing == IF call \in {"erase", "program"} THEN {Record(write)} ELSE {}

Resetting == CASE call \in {"wipe_a", "wipe_b"} -> "wiping"
               [] call = "reboot" -> "done"
               [] OTHER -> "none"

LEMMA PhaseFact ==
  /\ call = "idle" => Writing = {} /\ Resetting = "none"
  /\ call \in {"erase", "program"} => Writing = {Record(write)} /\ Resetting = "none"
  /\ call \in {"wipe_a", "wipe_b"} => Writing = {} /\ Resetting = "wiping"
  /\ call = "reboot" => Writing = {} /\ Resetting = "done"
  BY DEF Writing, Resetting

LEMMA PhaseFactPrime ==
  /\ call' = "idle" => Writing' = {} /\ Resetting' = "none"
  /\ call' \in {"erase", "program"} => Writing' = {Record(write')} /\ Resetting' = "none"
  /\ call' \in {"wipe_a", "wipe_b"} => Writing' = {} /\ Resetting' = "wiping"
  /\ call' = "reboot" => Writing' = {} /\ Resetting' = "done"
  BY DEF Writing, Resetting

(* The actions of the durable count, about the log.                               *)
LEMMA DurableActions ==
  LET rec == Held(page)
      same == Writing' = Writing /\ Resetting' = Resetting
      kept == rec' \subseteq rec /\ Durable!Newest(rec') = Durable!Newest(rec)
      ram_kept == count' = count /\ dirty' = dirty
      saved == /\ Writing # {} /\ Writing' = {} /\ dirty' = FALSE /\ saves' = saves + 1
               /\ Resetting' = Resetting /\ count' = count /\ damage' = damage
      booted == /\ Writing' = {} /\ Resetting' = "none" /\ dirty' = FALSE /\ saves' = 0
                /\ count' = Durable!Newest(rec').count
      tally == saves' = saves /\ damage' = damage
  IN  /\ Durable!Counts <=> /\ Writing = {} /\ Resetting = "none" /\ count' \in {count + 1, 0}
                            /\ dirty' = TRUE /\ rec' = rec /\ same /\ tally
      /\ Durable!Begin <=> /\ Writing = {} /\ Resetting = "none" /\ dirty
                           /\ \E r \in Writing' : /\ Writing' = {r} /\ r \in Durable!Records
                                                  /\ r.count = count
                                                  /\ \A q \in rec : q.sequence < r.sequence
                           /\ rec' = rec /\ Resetting' = Resetting /\ ram_kept /\ tally
      /\ Durable!MakeRoom <=> Writing # {} /\ kept /\ same /\ ram_kept /\ tally
      /\ Durable!Abandon <=> /\ Writing # {} /\ Writing' = {}
                             /\ rec' = rec /\ Resetting' = Resetting /\ ram_kept /\ tally
      /\ Durable!Commit <=> saved /\ rec' = rec \cup Writing
      /\ Durable!Lose <=> saved /\ rec' = rec /\ saves < damage
      /\ Durable!Resets <=> /\ Writing = {} /\ Resetting = "none" /\ Resetting' = "wiping"
                            /\ rec' = rec /\ Writing' = Writing /\ ram_kept /\ tally
      /\ Durable!Wipe <=> /\ Resetting = "wiping"
                          /\ \/ rec' \subseteq rec /\ Resetting' = Resetting
                             \/ rec' = {} /\ Resetting' = "done"
                          /\ Writing' = Writing /\ ram_kept /\ tally
      /\ Durable!Restart <=> /\ (Writing = {} /\ Resetting = "none") \/ Resetting = "done"
                             /\ rec' = rec /\ damage' = damage /\ booted
      /\ Durable!CutSave <=> /\ Writing # {} /\ booted /\ (kept \/ rec' = rec \cup Writing)
                             /\ damage' \in {damage, damage + 1}
      /\ Durable!CutReset <=> /\ Resetting = "wiping" /\ booted /\ rec' \subseteq rec
                              /\ damage' >= damage
      /\ UNCHANGED Durable!counter <=> rec' = rec /\ same /\ ram_kept /\ tally
  BY DEF Durable!Counts, Durable!Begin, Durable!MakeRoom, Durable!Abandon, Durable!Commit,
         Durable!Lose, Durable!Resets, Durable!Wipe, Durable!Restart, Durable!CutSave,
         Durable!CutReset, Durable!counter, Durable!store, Durable!AtRest, Durable!Keeps,
         Durable!Shrinks, Durable!Saved, Durable!Restarts, Held, Writing, Resetting

(* What every step finds and leaves.                                              *)
LEMMA HeldFacts ==
  ASSUME LogInv, [Next]_vars
  PROVE  /\ LogInv' /\ page \in Logs /\ page' \in Logs /\ Distinct(page)
         /\ Durable!Newest(Held(page)) = [sequence |-> Scan(page).sequence, count |-> Scan(page).count]
         /\ Durable!Newest(Held(page')) = [sequence |-> Scan(page').sequence, count |-> Scan(page').count]
<1>1. LogInv'
  BY HealStep
<1>2. TypeOK /\ TypeOK' /\ UniqueNumbers /\ UniqueNumbers'
  BY <1>1 DEF LogInv, PlaceInv, NumberInv
<1>3. page \in Logs /\ page' \in Logs /\ Distinct(page) /\ Distinct(page')
  BY <1>2, Asked, AskedPrime
<1> QED BY <1>1, <1>3, NewestHeld

LEMMA CountQuiet ==
  ASSUME LogInv, [Next]_vars,
         Increment \/ Flush \/ Persist \/ TimedOut \/ FactoryReset \/ UNCHANGED vars
  PROVE  Durable!Next \/ UNCHANGED Durable!counter
<1>1. CASE Increment \/ Flush
  <2>1. call = "idle" /\ call' = "idle" /\ page' = page /\ count' \in {count + 1, 0} /\ dirty' = TRUE
        /\ saves' = saves /\ damage' = damage
    BY <1>1 DEF Increment, Flush
  <2>2. Durable!Counts
    BY <2>1, PhaseFact, PhaseFactPrime, DurableActions
  <2> QED BY <2>2 DEF Durable!Next
<1>2. CASE Persist
  <2>1. /\ call = "idle" /\ dirty /\ page' = page /\ call' \in {"erase", "program"}
        /\ write' = [at |-> Following(at), sequence |-> sequence + 1, count |-> count]
        /\ count' = count /\ dirty' = dirty /\ saves' = saves /\ damage' = damage
    BY <1>2 DEF Persist, ram
  <2>2. TypeOK /\ Numbered
    BY DEF LogInv, PlaceInv, NumberInv
  <2>3. sequence \in Nat /\ count \in Nat /\ page \in Logs /\ Below(page, sequence)
    BY <2>2, Asked, StatisticsAssumption DEF TypeOK
  <2> DEFINE r == Record(write')
  <2>4. r.sequence = sequence + 1 /\ r.count = count /\ r \in Durable!Records
    BY <2>1, <2>3 DEF Record, Durable!Records
  <2>5. \A q \in Held(page) : q.sequence < r.sequence
    <3> SUFFICES ASSUME NEW i \in Valids(page) PROVE Record(page[i]).sequence < r.sequence
      BY DEF Held
    <3> QED BY <2>3, <2>4, RecordFact DEF Below
  <2>6. /\ Writing = {} /\ Resetting = "none" /\ Writing' = {r} /\ Resetting' = "none"
    BY <2>1, PhaseFact, PhaseFactPrime
  <2> HIDE DEF r
  <2>7. Durable!Begin
    BY <2>1, <2>4, <2>5, <2>6, DurableActions
  <2> QED BY <2>7 DEF Durable!Next
<1>3. CASE TimedOut
  <2>1. call \in {"erase", "program"} /\ call' = "idle" /\ page' = page
        /\ count' = count /\ dirty' = dirty /\ saves' = saves /\ damage' = damage
    BY <1>3 DEF TimedOut, ram
  <2>2. Durable!Abandon
    BY <2>1, PhaseFact, PhaseFactPrime, DurableActions
  <2> QED BY <2>2 DEF Durable!Next
<1>4. CASE FactoryReset
  <2>1. call = "idle" /\ call' = "wipe_a" /\ page' = page
        /\ count' = count /\ dirty' = dirty /\ saves' = saves /\ damage' = damage
    BY <1>4 DEF FactoryReset, ram
  <2>2. Durable!Resets
    BY <2>1, PhaseFact, PhaseFactPrime, DurableActions
  <2> QED BY <2>2 DEF Durable!Next
<1>5. CASE UNCHANGED vars
  <2>1. Writing' = Writing /\ Resetting' = Resetting /\ page' = page
        /\ count' = count /\ dirty' = dirty /\ saves' = saves /\ damage' = damage
    BY <1>5 DEF vars, ram, Writing, Resetting
  <2> QED BY <2>1, DurableActions
<1> QED BY <1>1, <1>2, <1>3, <1>4, <1>5

LEMMA CountErases ==
  ASSUME LogInv, [Next]_vars, Erase \/ CutErase
  PROVE  Durable!MakeRoom \/ Durable!CutSave \/ Durable!CutReset
<1>0. /\ PlaceInv /\ TypeOK /\ page \in Logs /\ damage \in Nat
      /\ Durable!Newest(Held(page)) = [sequence |-> Scan(page).sequence, count |-> Scan(page).count]
      /\ Durable!Newest(Held(page')) = [sequence |-> Scan(page').sequence, count |-> Scan(page').count]
  BY HeldFacts, Asked DEF LogInv, PlaceInv, NumberInv
<1>1. ASSUME call = "erase",
             \/ page' = Erased(page, SectorOf(write.at))
             \/ \E T \in SUBSET SectorOf(write.at) : page' = Spoilt(page, T)
      PROVE  /\ Held(page') \subseteq Held(page)
             /\ Durable!Newest(Held(page')) = Durable!Newest(Held(page))
  <2>1. /\ page' \in Logs /\ Fewer(page', page)
        /\ \A i \in Places : i \notin SectorOf(write.at) => page'[i] = page[i]
    BY <1>0, <1>1, EraseShrinks
  <2>2. Scan(page') = Scan(page)
    BY <1>0, <1>1, <2>1, EraseKeeps
  <2> QED BY <1>0, <2>1, <2>2, FewerHeld
<1>2. CASE Erase
  <2>1. call = "erase" /\ call' = "program" /\ page' = Erased(page, SectorOf(write.at)) /\ write' = write
        /\ count' = count /\ dirty' = dirty /\ saves' = saves /\ damage' = damage
    BY <1>2 DEF Erase, ram
  <2>2. Writing # {} /\ Writing' = Writing /\ Resetting' = Resetting
    BY <2>1, PhaseFact, PhaseFactPrime
  <2> QED BY <1>1, <2>1, <2>2, DurableActions
<1>3. CASE CutErase
  <2>1. /\ call' = "idle" /\ dirty' = FALSE /\ saves' = 0 /\ count' = Scan(page').count
        /\ damage' = damage + (IF call = "erase" THEN 0 ELSE PagesPerSector)
    BY <1>3 DEF CutErase, Booted, Harm
  <2>2. Writing' = {} /\ Resetting' = "none" /\ count' = Durable!Newest(Held(page')).count
    BY <1>0, <2>1, PhaseFactPrime
  <2>3. CASE call = "erase"
    <3>1. \E T \in SUBSET SectorOf(write.at) : page' = Spoilt(page, T)
      BY <1>3, <2>3 DEF CutErase
    <3>2. Writing # {} /\ damage' = damage
      BY <1>0, <2>1, <2>3, PhaseFact
    <3>3. Durable!CutSave
      BY <1>1, <2>1, <2>2, <2>3, <3>1, <3>2, DurableActions
    <3> QED BY <3>3
  <2>4. CASE call \in {"wipe_a", "wipe_b"}
    <3>1. PICK T : page' = Spoilt(page, T)
      BY <1>3 DEF CutErase
    <3>2. page' \in Logs /\ Fewer(page', page)
      BY <1>0, <3>1, ErasedFact
    <3>3. Held(page') \subseteq Held(page)
      BY <1>0, <3>2, FewerHeld
    <3>4. Resetting = "wiping" /\ damage' >= damage
      BY <1>0, <2>1, <2>4, PhaseFact, StatisticsAssumption
    <3>5. Durable!CutReset
      BY <2>1, <2>2, <3>3, <3>4, DurableActions
    <3> QED BY <3>5
  <2> QED BY <1>3, <2>3, <2>4 DEF CutErase
<1> QED BY <1>2, <1>3

(* A record whose saving is reported is held, or a cut had damaged its page and   *)
(* the saves since the restart have not outnumbered the damage.                   *)
LEMMA CountPrograms ==
  ASSUME LogInv, [Next]_vars, Program \/ CutProgram
  PROVE  Durable!Commit \/ Durable!Lose \/ Durable!CutSave
<1>0. /\ PlaceInv /\ Passed /\ TypeOK /\ TypeOK' /\ page \in Logs /\ page' \in Logs
      /\ damage \in Nat /\ saves \in Nat /\ write \in Requests /\ call = "program"
      /\ Durable!Newest(Held(page)) = [sequence |-> Scan(page).sequence, count |-> Scan(page).count]
      /\ Durable!Newest(Held(page')) = [sequence |-> Scan(page').sequence, count |-> Scan(page').count]
  <2>1. TypeOK /\ TypeOK'
    BY TypeStep DEF LogInv, PlaceInv, NumberInv
  <2> QED BY <2>1, HeldFacts, Asked DEF LogInv, Program, CutProgram
<1>1. write.at \notin Valids(page) /\ Writes(page', page, write)
  BY <1>0, NextFree, ProgramWrites
<1>2. /\ write.at \in Valids(page') => Held(page') = Held(page) \cup {Record(write)}
      /\ write.at \notin Valids(page') => Held(page') = Held(page)
  BY <1>0, <1>1, WrittenHeld
<1>3. Writing = {Record(write)} /\ Resetting = "none"
  BY <1>0, PhaseFact
<1>4. CASE Program
  <2>1. call' = "idle" /\ dirty' = FALSE /\ saves' = saves + 1 /\ count' = count /\ damage' = damage
    BY <1>4 DEF Program
  <2>2. Writing' = {} /\ Resetting' = "none"
    BY <2>1, PhaseFactPrime
  <2>3. CASE write.at \in Valids(page')
    <3>1. Held(page') = Held(page) \cup Writing /\ Writing # {}
      BY <1>2, <1>3, <2>3
    <3>2. Durable!Commit
      BY <1>3, <2>1, <2>2, <3>1, DurableActions
    <3> QED BY <3>2
  <2>4. CASE write.at \notin Valids(page')
    <3>1. /\ page[write.at] # Blank /\ page[write.at].kind # "valid"
          /\ write.at = at + 1 /\ SectorOf(write.at) = SectorOf(at)
      BY <1>0, <1>4, <2>4, ProgramDamaged
    <3>2. at \in Nat /\ write.at \in SectorOf(at) /\ Logging
      BY <1>0, <3>1, Asked, SameSector, StatisticsAssumption DEF Places, Logging
    <3>3. saves + (write.at - at) =< damage
      BY <1>0, <3>1, <3>2 DEF Passed
    <3>4. saves < damage
      BY <1>0, <3>1, <3>2, <3>3
    <3>5. Durable!Lose
      BY <1>2, <1>3, <2>1, <2>2, <2>4, <3>4, DurableActions
    <3> QED BY <3>5
  <2> QED BY <2>3, <2>4
<1>5. CASE CutProgram
  <2>1. /\ call' = "idle" /\ dirty' = FALSE /\ saves' = 0 /\ count' = Scan(page').count
        /\ damage' = damage + 1
    BY <1>5 DEF CutProgram, Booted, Harm
  <2>2. Writing' = {} /\ Resetting' = "none" /\ count' = Durable!Newest(Held(page')).count
    BY <1>0, <2>1, PhaseFactPrime
  <2>3. CASE write.at \in Valids(page')
    <3>1. Held(page') = Held(page) \cup Writing /\ Writing # {}
      BY <1>2, <1>3, <2>3
    <3>2. Durable!CutSave
      BY <2>1, <2>2, <3>1, DurableActions
    <3> QED BY <3>2
  <2>4. CASE write.at \notin Valids(page')
    <3>1. Held(page') = Held(page) /\ Writing # {}
      BY <1>2, <1>3, <2>4
    <3>2. Durable!CutSave
      BY <2>1, <2>2, <3>1, DurableActions
    <3> QED BY <3>2
  <2> QED BY <2>3, <2>4
<1> QED BY <1>4, <1>5

LEMMA CountResets ==
  ASSUME LogInv, [Next]_vars,
         Wipe(0, "wipe_a", "wipe_b") \/ Wipe(PagesPerSector, "wipe_b", "reboot") \/ Restart
  PROVE  Durable!Wipe \/ Durable!Restart
<1>0. /\ page \in Logs /\ page' \in Logs /\ LogInv'
      /\ Durable!Newest(Held(page')) = [sequence |-> Scan(page').sequence, count |-> Scan(page').count]
  BY HeldFacts
<1>1. ASSUME NEW S, page' = Erased(page, S) PROVE Held(page') \subseteq Held(page)
  BY <1>0, <1>1, ErasedFact, FewerHeld
<1>2. CASE Wipe(0, "wipe_a", "wipe_b")
  <2>1. call = "wipe_a" /\ call' = "wipe_b" /\ page' = Erased(page, SectorOf(0))
        /\ count' = count /\ dirty' = dirty /\ saves' = saves /\ damage' = damage
    BY <1>2 DEF Wipe, ram
  <2>2. Held(page') \subseteq Held(page)
    BY <1>1, <2>1
  <2>3. Durable!Wipe
    BY <2>1, <2>2, PhaseFact, PhaseFactPrime, DurableActions
  <2> QED BY <2>3
<1>3. CASE Wipe(PagesPerSector, "wipe_b", "reboot")
  <2>1. call = "wipe_b" /\ call' = "reboot"
        /\ count' = count /\ dirty' = dirty /\ saves' = saves /\ damage' = damage
    BY <1>3 DEF Wipe, ram
  <2>2. \A j \in Places : page'[j] = Blank
    BY <1>0, <2>1 DEF LogInv, Wiped
  <2>3. Held(page') = {}
    BY <2>2 DEF Held, Valids, Blank
  <2>4. Durable!Wipe
    BY <2>1, <2>3, PhaseFact, PhaseFactPrime, DurableActions
  <2> QED BY <2>4
<1>4. CASE Restart
  <2>1. /\ call \in {"idle", "reboot"} /\ page' = page /\ damage' = damage
        /\ call' = "idle" /\ dirty' = FALSE /\ saves' = 0 /\ count' = Scan(page').count
    BY <1>4 DEF Restart, Booted
  <2>2. Writing' = {} /\ Resetting' = "none" /\ count' = Durable!Newest(Held(page')).count
    BY <1>0, <2>1, PhaseFactPrime
  <2>3. Durable!Restart
    BY <2>1, <2>2, PhaseFact, DurableActions
  <2> QED BY <2>3
<1> QED BY <1>2, <1>3, <1>4

(* The log is a durable count: what a restart counts on from changes with the     *)
(* last step of a save, to the record that save was asked for, or in a factory    *)
(* reset, through sector changes, timeouts and cuts.                              *)
THEOREM CountDurable == Spec => CountSpec
<1>1. Init => Durable!Init
  <2> SUFFICES ASSUME Init PROVE Durable!Init
    OBVIOUS
  <2>1. Held(page) = {} /\ Writing = {} /\ Resetting = "none"
    BY PhaseFact DEF Init, Held, Valids, Blank
  <2> QED BY <2>1 DEF Init, Durable!Init, Held, Writing, Resetting
<1>2. LogInv /\ [Next]_vars => [Durable!Next]_(Durable!counter)
  <2> SUFFICES ASSUME LogInv, [Next]_vars PROVE Durable!Next \/ UNCHANGED Durable!counter
    OBVIOUS
  <2> QED BY CountQuiet, CountErases, CountPrograms, CountResets DEF Next, Durable!Next
<1>3. Spec => []LogInv
  BY HealInit, HealStep, PTL DEF Spec
<1> QED BY <1>1, <1>2, <1>3, PTL DEF Spec, CountSpec, Durable!Spec
===================================================================================
